---- MODULE Spec2Model ----
(***************************************************************************)
(* State-machine model of aria_vrs_extractor: the seven sensor extraction  *)
(* steps, merge_events and write_manifest acting on one output root, with  *)
(* done-markers under <root>/_status.                                      *)
(*                                                                         *)
(* A file is modelled as a sequence: <<>> when the path does not exist,    *)
(* <<content>> when it does.  A marker's content is <<>> for an empty file *)
(* and <<summary>> for a JSON summary.                                     *)
(***************************************************************************)
EXTENDS Integers, Sequences, FiniteSets, TLC

VARIABLES marker, jsonl, art, dirs, manifest, run, calls, kills, partial, qf,
          layout, audio_cli, last_call, listing

\* partial: the steps whose output a run has begun and not finished writing;
\* run.resumed: the running call found its step's output in that state
vars == <<marker, jsonl, art, dirs, manifest, run, calls, kills, partial, qf,
          layout, audio_cli, last_call, listing>>
\* the state of the components that are modelled on their own
aside == <<qf, layout, audio_cli, last_call, listing>>
disk == <<marker, jsonl, art, dirs, manifest>>

\* ---------------------------------------------------------------- bounds
MaxCalls == 3
MaxKills == 1
MaxLines == 2
MaxTs == 2
MaxFiles == 2
MaxFlags == 2
MaxWrites == 2

\* Python None in an integer field (timestamps are >= 1 in the model)
None == -1

\* Optional[str]: None and the empty string are both falsy in "a or b"
NoStr == ""

\* ------------------------------------------------------------- constants
candidate_steps ==
    <<"extract_rgb", "extract_et", "extract_audio", "extract_imu",
      "extract_gps", "extract_wifi", "extract_bt">>

SensorSteps == {candidate_steps[i] : i \in 1..Len(candidate_steps)}

MergeStep == "merge_events"
ManifestStep == "write_manifest"

manifest_steps == candidate_steps \o <<MergeStep>>

Steps == SensorSteps \cup {MergeStep, ManifestStep}

SENSOR_FILES ==
    [s \in SensorSteps |->
        CASE s = "extract_rgb"   -> "rgb.jsonl"
          [] s = "extract_et"    -> "et.jsonl"
          [] s = "extract_audio" -> "mic.jsonl"
          [] s = "extract_imu"   -> "imu.jsonl"
          [] s = "extract_gps"   -> "gps.jsonl"
          [] s = "extract_wifi"  -> "wifi.jsonl"
          [] s = "extract_bt"    -> "bt.jsonl"]

EVENTS_FILE == "events.jsonl"

JsonlFiles == {SENSOR_FILES[s] : s \in SensorSteps} \cup {EVENTS_FILE}

SensorName ==
    [s \in SensorSteps |->
        CASE s = "extract_rgb"   -> "rgb"
          [] s = "extract_et"    -> "et"
          [] s = "extract_audio" -> "mic"
          [] s = "extract_imu"   -> "imu"
          [] s = "extract_gps"   -> "gps"
          [] s = "extract_wifi"  -> "wifi"
          [] s = "extract_bt"    -> "bt"]

\* OutputLayout: the directories of one output root
ArtDirs == {"rgb", "et_left", "et_right", "audio"}
AllDirs == ArtDirs \cup {"root", "sensors", "manifest", "_status"}

\* -------------------------------------------------------------- files
Absent == <<>>
File(c) == <<c>>
Exists(f) == f # <<>>
EmptyPayload == <<>>

\* ------------------------------------------------- the provider's captures
\* A provider record: device timestamp, whether its payload is usable
\* (valid image / non-empty audio buffer), and its frame_number (or None).
R(t, ok, fn) == [ts |-> t, ok |-> ok, fn |-> fn]
St(l, rs) == [label |-> l, recs |-> rs]

CaptureIds == {"capA", "capB", "capC", "capX"}

\* capA: a full capture; capB: a shorter capture with other frame names
\* and a single eye stream; capC: a capture without sensor streams; capX: a
\* path create_vrs_data_provider cannot open.
Capture(c) ==
    CASE c = "capA" ->
           [extract_rgb   |-> <<St("rgb", <<R(1, TRUE, 1), R(2, TRUE, 2)>>)>>,
            extract_et    |-> <<St("left", <<R(3, TRUE, 1)>>),
                                St("right", <<R(2, TRUE, 1)>>)>>,
            extract_audio |-> <<St("mic", <<R(1, TRUE, None), R(2, TRUE, None)>>)>>,
            extract_imu   |-> <<St("imu1", <<R(3, TRUE, None)>>),
                                St("imu2", <<R(2, TRUE, None)>>)>>,
            extract_gps   |-> <<St("gps", <<R(2, TRUE, None)>>)>>,
            extract_wifi  |-> <<>>,
            extract_bt    |-> <<St("bt", <<R(1, TRUE, None)>>)>>]
      [] c = "capB" ->
           [extract_rgb   |-> <<St("rgb", <<R(1, FALSE, 1), R(2, TRUE, None)>>)>>,
            extract_et    |-> <<St("left", <<R(2, TRUE, None)>>)>>,
            extract_audio |-> <<St("mic", <<R(1, FALSE, None), R(3, TRUE, None)>>)>>,
            extract_imu   |-> <<St("imu1", <<R(2, TRUE, None)>>)>>,
            extract_gps   |-> <<>>,
            extract_wifi  |-> <<St("wifi", <<R(3, TRUE, None)>>)>>,
            extract_bt    |-> <<St("bt", <<>>)>>]
      [] OTHER ->
           [s \in SensorSteps |-> <<>>]

\* The per-call configuration: the sensor's export toggle and the
\* --left/--right switches of extract-et.
Configs ==
    {[export |-> TRUE,  left |-> TRUE,  right |-> TRUE],
     [export |-> TRUE,  left |-> TRUE,  right |-> FALSE],
     [export |-> FALSE, left |-> TRUE,  right |-> TRUE]}

DefaultConfig == [export |-> TRUE, left |-> TRUE, right |-> TRUE]

\* ------------------------------------------------------------ status.py
\* a variant that never finds a step done
is_done_never(m, s) == FALSE

\* a variant that takes a marker without payload for a missing one
is_done_nonempty(m, s) == Exists(m[s]) /\ m[s][1] # <<>>

is_done(m, s) == Exists(m[s])

\* a variant that leaves the marker in place
clear_done_noop(m, s) == m

clear_done(m, s) == IF Exists(m[s]) THEN [m EXCEPT ![s] = Absent] ELSE m

\* mark_done: makedirs(done_dir), open(marker, "wt"), write(payload)
mark_done_open(m, s) == [m EXCEPT ![s] = File(EmptyPayload)]
mark_done_write(m, s, payload) == [m EXCEPT ![s] = File(<<payload>>)]

\* ---------------------------------------------------------------- io.py
\* ensure_directory / makedirs(parents=True)
ensure_directory(d, path) == d \cup {path, "root"}

\* a variant that opens for appending: an existing file keeps its content
open_at(files, path) ==
    IF Exists(files[path]) THEN files ELSE [files EXCEPT ![path] = File(<<>>)]

\* Filesystem.open(path, "wt"): the file exists and is empty afterwards
open_wt(files, path) == [files EXCEPT ![path] = File(<<>>)]

\* ------------------------------------------------------------ provider.py
HasLabel(ss, l) == \E i \in 1..Len(ss) : ss[i].label = l
ByLabel(ss, l) == ss[CHOOSE i \in 1..Len(ss) : ss[i].label = l]

\* resolve_et_streams: left and right when both exist, otherwise the first
\* eye-tracking stream as "mono"; an error when there is none.
resolve_et_streams(ss) ==
    IF HasLabel(ss, "left") /\ HasLabel(ss, "right")
    THEN [status |-> "ok",
          streams |-> <<[eye |-> "left", recs |-> ByLabel(ss, "left").recs],
                        [eye |-> "right", recs |-> ByLabel(ss, "right").recs]>>]
    ELSE IF Len(ss) > 0
    THEN [status |-> "ok", streams |-> <<[eye |-> "mono", recs |-> ss[1].recs]>>]
    ELSE [status |-> "raise", streams |-> <<>>]

\* the selection of extract_et from the discovered streams
EyesOf(ss, eyes) ==
    LET F[i \in 0..Len(ss)] ==
          IF i = 0 THEN <<>>
          ELSE IF ss[i].eye \in eyes THEN Append(F[i - 1], ss[i]) ELSE F[i - 1]
    IN F[Len(ss)]

et_selection(discovered, cfg) ==
    LET lr == EyesOf(discovered,
                     (IF cfg.left THEN {"left"} ELSE {})
                       \cup (IF cfg.right THEN {"right"} ELSE {}))
    IN IF lr # <<>> THEN lr ELSE EyesOf(discovered, {"mono"})

dir_map(eye) ==
    CASE eye = "left" -> "et_left"
      [] eye = "right" -> "et_right"
      [] eye = "mono" -> "et_left"

AsStreams(ss, d) ==
    [i \in 1..Len(ss) |-> [eye |-> ss[i].label, recs |-> ss[i].recs, dir |-> d]]

\* AriaVrsProvider.__init__: a provider that is falsy raises ValueError
CanOpen(c) == c # "capX"

\* resolve_*_stream(s) of an opened provider: "raise" (RuntimeError),
\* "empty" (warn and return) or "ok" with the streams to consume in order.
ResolveStreams(s, ss, cfg) ==
    CASE s = "extract_rgb" ->
           IF ss = <<>> THEN [status |-> "raise", streams |-> <<>>]
           ELSE [status |-> "ok", streams |-> AsStreams(<<ss[1]>>, "rgb")]
      [] s = "extract_audio" ->
           IF ss = <<>> THEN [status |-> "raise", streams |-> <<>>]
           ELSE [status |-> "ok", streams |-> AsStreams(<<ss[1]>>, "audio")]
      [] s = "extract_imu" ->
           IF ss = <<>> THEN [status |-> "raise", streams |-> <<>>]
           ELSE [status |-> "ok", streams |-> AsStreams(ss, "none")]
      [] s = "extract_et" ->
           LET d == resolve_et_streams(ss) IN
           IF d.status = "raise" THEN d
           ELSE LET sel == et_selection(d.streams, cfg) IN
                IF sel = <<>> THEN [status |-> "empty", streams |-> <<>>]
                ELSE [status |-> "ok",
                      streams |-> [i \in 1..Len(sel) |->
                                     [eye |-> sel[i].eye, recs |-> sel[i].recs,
                                      dir |-> dir_map(sel[i].eye)]]]
      [] OTHER ->
           IF ss = <<>> THEN [status |-> "empty", streams |-> <<>>]
           ELSE [status |-> "ok", streams |-> AsStreams(ss, "none")]

\* a variant in which every failure is a warning and a normal return
Resolve_optional(s, c, cfg) ==
    LET r == ResolveStreams(s, Capture(c)[s], cfg) IN
    IF r.status = "raise" THEN [r EXCEPT !.status = "empty"] ELSE r

\* a variant in which every missing stream is an exception
Resolve_mandatory(s, c, cfg) ==
    LET r == ResolveStreams(s, Capture(c)[s], cfg) IN
    IF r.status = "empty" THEN [r EXCEPT !.status = "raise"] ELSE r

\* What a step gets from AriaVrsProvider(vrs_path) and resolve_*_stream(s)
Resolve(s, c, cfg) ==
    IF ~CanOpen(c) THEN [status |-> "raise", streams |-> <<>>]
    ELSE ResolveStreams(s, Capture(c)[s], cfg)

HasArtifacts(s) == s \in {"extract_rgb", "extract_et", "extract_audio"}

\* a variant that takes every record for usable
is_valid_always(r) == TRUE

\* image.is_valid() / the truth value of audio_data.data
is_valid(r) == r.ok

\* rgb and audio create their directories before opening the provider
DirsFirst(s) == s \in {"extract_rgb", "extract_audio"}

\* ------------------------------------------------------------- summaries
Summary(sensor, path, n, b, first, last, arts, srcs) ==
    [sensor |-> sensor, jsonl |-> path, count |-> n, bytes |-> b,
     ts_first |-> first, ts_last |-> last, artifacts |-> arts,
     sources |-> srcs]

Artifact(uri) == [uri |-> uri, count |-> 0, bytes |-> 0]

Min(a, b) == IF a < b THEN a ELSE b
Max(a, b) == IF a > b THEN a ELSE b

\* a variant that keeps the first and the latest timestamp seen
Observe_in_order(sum, ts) ==
    [sum EXCEPT !.ts_first = IF @ = None THEN ts ELSE @,
                !.ts_last = ts]

\* summary["ts_first"] = ts if None else min(...), likewise ts_last
Observe(sum, ts) ==
    [sum EXCEPT !.ts_first = IF @ = None THEN ts ELSE Min(@, ts),
                !.ts_last = IF @ = None THEN ts ELSE Max(@, ts)]

\* ----------------------------------------------------------- JSONL lines
\* kind "rec": a JSON object with ts_ns; the other kinds are lines that
\* _iter_jsonl skips (blank, not JSON, no ts_ns).
Line(k, ts, sensor, st, n) ==
    [kind |-> k, ts |-> ts, sensor |-> sensor, st |-> st, n |-> n]

\* the size of a serialized line (len(record)) and of an encoded artifact
LineLen(l) == 1 + l.ts
ArtBytes(r) == 2 + r.ts

\* ------------------------------------------------------------ quality.py
\* the flag names a configuration may enable, and the names a caller may
\* try to register a predicate for
FlagNames == {"blur", "drop_frame", "audio_clipping"}
RegNames == FlagNames \cup {"custom"}

DEFAULT_QUALITY_FLAGS == <<"blur", "drop_frame", "audio_clipping">>

\* predicates over a payload; a payload is reduced to one number
Predicates == {"always", "never", "is_one"}
Payloads == {0, 1}

Apply(evaluator, payload) ==
    CASE evaluator = "always" -> TRUE
      [] evaluator = "never" -> FALSE
      [] evaluator = "is_one" -> payload = 1

\* the lists quality_flags.enabled may hold in a configuration file
EnabledLists == UNION {[1..k -> FlagNames] : k \in 0..MaxFlags}

\* QualityFlags.from_dict: <<>> for a missing key, <<list>> for a list;
\* the default list when missing, the listed names as they are otherwise
from_dict(enabled) ==
    IF enabled = <<>> THEN DEFAULT_QUALITY_FLAGS ELSE enabled[1]

\* build_quality_flagger: config.quality_flags.enabled or DEFAULT_QUALITY_FLAGS
build_quality_flagger(enabled) ==
    IF enabled = <<>> THEN DEFAULT_QUALITY_FLAGS ELSE enabled

\* QualityFlagger(enabled_flags=...): no evaluator registered.  flags and
\* payload hold the last evaluate call, raised whether the last register
\* call raised ValueError.
QualityFlagger(enabled) ==
    [enabled_flags |-> enabled,
     evaluators |-> [n \in RegNames |-> "none"],
     flags |-> <<>>, payload |-> 0, raised |-> FALSE, op |-> "new"]

DefaultFlagger == QualityFlagger(build_quality_flagger(from_dict(<<>>)))

InList(name, list) == \E i \in 1..Len(list) : list[i] = name

\* a variant that stores the evaluator before it tests the name
register_then_raise(f, name, evaluator) ==
    [f EXCEPT !.evaluators[name] = evaluator,
              !.raised = ~InList(name, f.enabled_flags)]

\* QualityFlagger.register
register(f, name, evaluator) ==
    IF ~InList(name, f.enabled_flags)
    THEN [f EXCEPT !.raised = TRUE]
    ELSE [f EXCEPT !.evaluators[name] = evaluator, !.raised = FALSE]

\* a variant that reports an enabled flag without evaluator as triggered
evaluate_unregistered(f, payload) ==
    LET F[i \in 0..Len(f.enabled_flags)] ==
          IF i = 0 THEN <<>>
          ELSE LET name == f.enabled_flags[i]
                   evaluator == f.evaluators[name]
               IN IF evaluator = "none" \/ Apply(evaluator, payload)
                  THEN Append(F[i - 1], name)
                  ELSE F[i - 1]
    IN F[Len(f.enabled_flags)]

\* QualityFlagger.evaluate
evaluate(f, payload) ==
    LET F[i \in 0..Len(f.enabled_flags)] ==
          IF i = 0 THEN <<>>
          ELSE LET name == f.enabled_flags[i]
                   evaluator == f.evaluators[name]
               IN IF evaluator = "none" THEN F[i - 1]
                  ELSE IF Apply(evaluator, payload)
                  THEN Append(F[i - 1], name)
                  ELSE F[i - 1]
    IN F[Len(f.enabled_flags)]

\* extract_audio: flags = evaluate(payload), then audio_clipping is appended
\* when the chunk clips, the flag is enabled and evaluate did not return it
audio_flags(f, payload, clipping) ==
    LET flags == evaluate(f, payload) IN
    IF clipping /\ InList("audio_clipping", f.enabled_flags)
                /\ ~InList("audio_clipping", flags)
    THEN Append(flags, "audio_clipping")
    ELSE flags

\* ------------------------------------------------- config.py, paths.py
PathFields == {"rgb_frames", "et_left", "et_right"}
PathValues == {"frames", "frames/"}

\* PathsConfig: the defaults of the dataclass
PathsDefault ==
    [rgb_frames |-> "rgb/frames", et_left |-> "et/left",
     et_right |-> "et/right", audio_chunks |-> "audio",
     sensors_dir |-> "sensors", manifest_dir |-> "manifest"]

\* the "paths" mappings of a configuration file: any of the image
\* directories may be given
PathPayloads == UNION {[D -> PathValues] : D \in SUBSET PathFields}

\* PathsConfig.from_dict: a key of the payload replaces the default
PathsConfig_from_dict(payload) ==
    [f \in DOMAIN PathsDefault |->
       IF f \in DOMAIN payload THEN payload[f] ELSE PathsDefault[f]]

\* str(part).strip("/")
strip(part) == IF part = "frames/" THEN "frames" ELSE part

\* join_uri(base, part)
join_uri(base, part) == base \o "/" \o strip(part)

OUTPUT_ROOT == "out"
DONE_DIRNAME == "_status"

\* OutputLayout.from_config
OutputLayout_from_config(paths) ==
    [root |-> OUTPUT_ROOT,
     sensors_dir |-> join_uri(OUTPUT_ROOT, paths.sensors_dir),
     rgb_dir |-> join_uri(OUTPUT_ROOT, paths.rgb_frames),
     et_left_dir |-> join_uri(OUTPUT_ROOT, paths.et_left),
     et_right_dir |-> join_uri(OUTPUT_ROOT, paths.et_right),
     audio_dir |-> join_uri(OUTPUT_ROOT, paths.audio_chunks),
     manifest_dir |-> join_uri(OUTPUT_ROOT, paths.manifest_dir)]

\* f"frame_{frame_id:06d}.jpg" and f"chunk_{chunk_index:06d}.wav"
FrameIds == 0..1
frame_name(n) == IF n = 0 THEN "frame_000000.jpg" ELSE "frame_000001.jpg"
chunk_name(n) == IF n = 0 THEN "chunk_000000.wav" ELSE "chunk_000001.wav"

\* join_uri(join_uri(root, DONE_DIRNAME), f"{step}.done")
marker_path(L, s) == join_uri(join_uri(L.root, DONE_DIRNAME), s \o ".done")

\* the paths a step opens for writing under a layout
step_writes(s, L) ==
    {marker_path(L, s)} \cup
    (IF s \in SensorSteps THEN {join_uri(L.sensors_dir, SENSOR_FILES[s])}
     ELSE IF s = MergeStep THEN {join_uri(L.sensors_dir, EVENTS_FILE)}
     ELSE {join_uri(L.manifest_dir, "manifest.json")}) \cup
    (CASE s = "extract_rgb" ->
            {join_uri(L.rgb_dir, frame_name(n)) : n \in FrameIds}
       [] s = "extract_et" ->
            {join_uri(L.et_left_dir, frame_name(n)) : n \in FrameIds} \cup
            {join_uri(L.et_right_dir, frame_name(n)) : n \in FrameIds}
       [] s = "extract_audio" ->
            {join_uri(L.audio_dir, chunk_name(n)) : n \in FrameIds}
       [] OTHER -> {})

\* layout: the layout of the run and the writes made under it, <<step, path>>
DefaultLayout ==
    [paths |-> OutputLayout_from_config(PathsDefault), written |-> {}]

\* --------------------------------------- config.py and cli.py: extract-audio
\* the chunk sizes a configuration file or --chunk-samples may carry; None
\* stands for a key or an option that is not given
ChunkInputs == {None, 0, 1, 1024, 2048, 4096, 8192}

\* audio_cli: the inputs of one extract-audio invocation and how far it got
AudioCli(file, option) ==
    [file |-> file, option |-> option, pc |-> "start", chunk_samples |-> None]

NoAudioCli == AudioCli(None, None)

\* AudioConfig.from_dict: int(payload.get("chunk_samples", 4096)), ValueError
\* unless it is 2048 or 4096
AudioConfig_from_dict(chunk) ==
    LET chunk_samples == IF chunk = None THEN 4096 ELSE chunk IN
    IF chunk_samples \notin {2048, 4096}
    THEN [raised |-> TRUE, chunk_samples |-> None]
    ELSE [raised |-> FALSE, chunk_samples |-> chunk_samples]

\* cli_extract_audio: "if chunk_samples: cfg.audio.chunk_samples = int(...)"
cli_override(cfg_chunk, option) ==
    IF option = None \/ option = 0 THEN [raised |-> FALSE, chunk_samples |-> cfg_chunk]
    ELSE [raised |-> FALSE, chunk_samples |-> option]

\* ------------------------------------------------ status.py, call by call
\* last_call: for every step the last mark_done or clear_done call made for it
NoCalls == [s \in Steps |-> [op |-> "none", payload |-> NoStr, found |-> FALSE]]

\* the payloads of a caller: none (None or ""), or one of two texts
StatusPayloads == {NoStr, "p1", "p2"}

\* mark_done as one call: makedirs, open "wt", write(payload or "ok")
mark_done(m, s, payload) ==
    mark_done_write(mark_done_open(m, s), s,
                    IF payload = NoStr THEN "ok" ELSE payload)

\* ------------------------------------- io.py: the files of a directory
\* listing: one directory, the order in which fs.list_files enumerates its
\* files, and what _collect_directory_checksums returns for it
NoListing == [dir |-> {}, order |-> <<>>, pc |-> "start", metrics |-> <<>>]

\* ------------------------------------------------------------ the process
\* no early return: run.early records the last call that returned before
\* its first write for a reason other than the marker (why: "disabled",
\* "no_sources", "no_summaries", "empty" for a missing optional stream,
\* "raise" for an exception of the provider), with its step and force flag;
\* run.logged counts the records the body of the operation has sent to its
\* logger (logger.info, logger.warning; the one closing record of LogTimer
\* reports the duration of the step and is not among them), run.recovered
\* the records, lines and entries the call has passed over
\* run.prev: the marker, the JSONL file and the artifact directories of the
\* step as the running call of an extraction step or of merge_events found
\* them
NoPrev == [marker |-> Absent, jsonl |-> Absent, art |-> [d \in ArtDirs |-> {}]]

Found(s, path) == [marker |-> marker[s], jsonl |-> jsonl[path], art |-> art]

NoEarly == [why |-> "none", step |-> "none", force |-> FALSE]

Idle ==
    [step |-> "none", force |-> FALSE, pc |-> "idle", cap |-> "capC",
     cfg |-> DefaultConfig, streams |-> <<>>, si |-> 0, ri |-> 0,
     sum |-> <<>>, chunk |-> 0, names |-> {}, srcs |-> <<>>,
     summaries |-> <<>>,
     heap |-> {}, pdt |-> NoStr, entries |-> <<>>, skipped |-> "none",
     resumed |-> FALSE, early |-> NoEarly, logged |-> 0, recovered |-> 0,
     prev |-> NoPrev]

\* directory contents: a set of files [name, data]
WriteFile(S, n, d) == {f \in S : f.name # n} \cup {[name |-> n, data |-> d]}

Init ==
    /\ marker = [s \in Steps |-> Absent]
    /\ jsonl = [f \in JsonlFiles |-> Absent]
    /\ art = [d \in ArtDirs |-> {}]
    /\ dirs = {}
    /\ manifest = Absent
    /\ run = Idle
    /\ calls = 0
    /\ kills = 0
    /\ partial = {}
    /\ qf = DefaultFlagger
    /\ layout = DefaultLayout
    /\ audio_cli = NoAudioCli
    /\ last_call = NoCalls
    /\ listing = NoListing

\* ------------------------------------------------- extraction steps
FirstPos(streams, si) ==
    LET ok == {i \in si..Len(streams) : Len(streams[i].recs) > 0}
    IN IF ok = {} THEN 0 ELSE CHOOSE i \in ok : \A j \in ok : i <= j

\* the position after (si, ri) in "for info in streams: for data in iterator"
NextPos(streams, si, ri) ==
    IF ri < Len(streams[si].recs) THEN <<si, ri + 1>>
    ELSE <<FirstPos(streams, si + 1), 1>>

InitialSummary(s, streams) ==
    Summary(SensorName[s], <<SENSOR_FILES[s]>>, 0, 0, None, None,
            IF HasArtifacts(s)
            THEN [i \in 1..Len(streams) |-> Artifact(streams[i].dir)]
            ELSE <<>>,
            <<>>)

\* lines 52-68 of every extract_*: disabled -> return; done and not force
\* -> skip; force -> clear_done
\* a variant that handles the marker before it tests the export toggle
ExtractCall_marker_first(s, f, c, cfg) ==
    /\ run.pc = "idle"
    /\ UNCHANGED aside
    /\ calls < MaxCalls
    /\ calls' = calls + 1
    /\ UNCHANGED <<jsonl, art, dirs, manifest, kills, partial>>
    /\ IF ~f /\ is_done(marker, s)
       THEN /\ run' = [Idle EXCEPT !.skipped = s, !.logged = 1]
            /\ UNCHANGED marker
       ELSE /\ marker' = IF f THEN clear_done(marker, s) ELSE marker
            /\ IF ~cfg.export
               THEN run' = [Idle EXCEPT !.early = [why |-> "disabled",
                                                   step |-> s, force |-> f],
                                        !.logged = 1]
               ELSE run' = [Idle EXCEPT !.step = s, !.force = f, !.cap = c,
                                        !.prev = Found(s, SENSOR_FILES[s]),
                                        !.resumed = s \in partial,
                                        !.cfg = IF s = "extract_et" THEN cfg
                                                ELSE DefaultConfig,
                                        !.pc = IF DirsFirst(s) THEN "dirs"
                                               ELSE "resolve"]

ExtractCall(s, f, c, cfg) ==
    /\ run.pc = "idle"
    /\ UNCHANGED aside
    /\ calls < MaxCalls
    /\ calls' = calls + 1
    /\ UNCHANGED <<jsonl, art, dirs, manifest, kills, partial>>
    /\ IF ~cfg.export
       THEN /\ run' = [Idle EXCEPT !.early = [why |-> "disabled", step |-> s,
                                              force |-> f],
                                        !.logged = 1]
            /\ UNCHANGED marker
       ELSE IF ~f /\ is_done(marker, s)
       THEN /\ run' = [Idle EXCEPT !.skipped = s, !.logged = 1]
            /\ UNCHANGED marker
       ELSE /\ marker' = IF f THEN clear_done(marker, s) ELSE marker
            /\ run' = [Idle EXCEPT !.step = s, !.force = f, !.cap = c,
                                   !.prev = Found(s, SENSOR_FILES[s]),
                                   !.resumed = s \in partial,
                                   !.cfg = IF s = "extract_et" THEN cfg
                                           ELSE DefaultConfig,
                                   !.pc = IF DirsFirst(s) THEN "dirs"
                                          ELSE "resolve"]

StepDirs(s, streams) ==
    CASE s = "extract_rgb" -> {"rgb", "sensors"}
      [] s = "extract_audio" -> {"audio", "sensors"}
      [] s = "extract_et" ->
           {streams[i].dir : i \in 1..Len(streams)} \cup {"sensors"}
      [] OTHER -> {}

\* ensure_directory(...) of rgb, audio (before the provider) and et (after)
ExtractDirs ==
    /\ run.pc = "dirs"
    /\ UNCHANGED aside
    /\ run.step \in SensorSteps
    /\ dirs' = dirs \cup StepDirs(run.step, run.streams) \cup {"root"}
    /\ run' = [run EXCEPT !.pc = IF DirsFirst(run.step) THEN "resolve"
                                  ELSE "open"]
    /\ UNCHANGED <<marker, jsonl, art, manifest, calls, kills, partial>>

\* AriaVrsProvider(vrs_path) and resolve_*_stream(s)
ExtractResolve ==
    /\ run.pc = "resolve"
    /\ UNCHANGED aside
    /\ LET r == Resolve(run.step, run.cap, run.cfg) IN
       IF r.status = "ok"
       THEN run' = [run EXCEPT !.streams = r.streams,
                               !.pc = IF run.step = "extract_et" THEN "dirs"
                                      ELSE "open"]
       ELSE run' = [Idle EXCEPT !.early = [why |-> r.status,
                                           step |-> run.step,
                                           force |-> run.force],
                                !.logged = IF r.status = "empty" THEN 1
                                           ELSE 0]
    /\ UNCHANGED <<disk, calls, kills, partial>>

\* fs.open(jsonl_path, "wt"): fails when the sensors directory is missing,
\* truncates otherwise
ExtractOpen ==
    /\ run.pc = "open"
    /\ UNCHANGED aside
    /\ run.step \in SensorSteps
    /\ IF "sensors" \notin dirs
       THEN /\ run' = Idle
            /\ UNCHANGED <<jsonl, partial>>
       ELSE /\ jsonl' = open_wt(jsonl, SENSOR_FILES[run.step])
            /\ LET p == FirstPos(run.streams, 1) IN
               /\ run' = [run EXCEPT !.sum = InitialSummary(run.step, run.streams),
                                     !.si = p, !.ri = 1,
                                     !.pc = IF p = 0 THEN "mark" ELSE "rec"]
               /\ partial' = IF p = 0 THEN partial \ {run.step}
                              ELSE partial \cup {run.step}
    /\ UNCHANGED <<marker, art, dirs, manifest, calls, kills>>

\* one iteration of the record loop
ExtractRec ==
    /\ run.pc = "rec"
    /\ UNCHANGED aside
    /\ run.step \in SensorSteps
    /\ LET s == run.step
           st == run.streams[run.si]
           r == st.recs[run.ri]
           nxt == NextPos(run.streams, run.si, run.ri)
           moved == [run EXCEPT !.si = nxt[1], !.ri = nxt[2],
                               !.pc = IF nxt[1] = 0 THEN "mark" ELSE "rec"]
           passed == [moved EXCEPT !.recovered = @ + 1]
           f == SENSOR_FILES[s]
       IN
       IF HasArtifacts(s)
       THEN IF ~is_valid(r)
            THEN /\ run' = passed
                 /\ UNCHANGED <<jsonl, art, dirs>>
            ELSE LET name == IF s = "extract_audio" THEN run.chunk
                             ELSE IF r.fn = None THEN run.sum.count
                             ELSE r.fn
                     b == ArtBytes(r)
                     sum1 == [run.sum EXCEPT
                                !.bytes = @ + b, !.count = @ + 1,
                                !.artifacts[run.si].bytes = @ + b,
                                !.artifacts[run.si].count = @ + 1]
                 IN /\ dirs' = ensure_directory(dirs, st.dir)
                    /\ art' = [art EXCEPT ![st.dir] =
                                  WriteFile(@, name, <<run.cap, r.ts>>)]
                    /\ jsonl' = [jsonl EXCEPT ![f] =
                                  File(Append(@[1],
                                       Line("rec", r.ts, SensorName[s], st.eye, name)))]
                    /\ run' = [moved EXCEPT
                                 !.sum = Observe(sum1, r.ts),
                                 !.chunk = IF s = "extract_audio" THEN @ + 1 ELSE @,
                                 !.names = @ \cup {<<st.dir, name>>}]
       ELSE LET line == Line("rec", r.ts, SensorName[s], st.eye, run.ri)
                sum1 == Observe(run.sum, r.ts)
            IN /\ jsonl' = [jsonl EXCEPT ![f] = File(Append(@[1], line))]
               /\ run' = [moved EXCEPT
                            !.sum = [sum1 EXCEPT !.count = @ + 1,
                                                 !.bytes = @ + LineLen(line) + 1]]
               /\ UNCHANGED <<art, dirs>>
    /\ partial' = IF run'.pc = "mark" THEN partial \ {run.step} ELSE partial
    /\ UNCHANGED <<marker, manifest, calls, kills>>

\* mark_done: makedirs(done_dir) and open(marker, "wt")
MarkOpen ==
    /\ run.pc = "mark"
    /\ UNCHANGED aside
    /\ dirs' = ensure_directory(dirs, "_status")
    /\ marker' = mark_done_open(marker, run.step)
    /\ run' = [run EXCEPT !.pc = "mark2"]
    /\ UNCHANGED <<jsonl, art, manifest, calls, kills, partial>>

\* mark_done: handle.write(payload) and close
MarkWrite ==
    /\ run.pc = "mark2"
    /\ UNCHANGED aside
    /\ marker' = mark_done_write(marker, run.step, run.sum)
    /\ run' = Idle
    /\ UNCHANGED <<jsonl, art, dirs, manifest, calls, kills, partial>>

\* ------------------------------------------------------- merge_events
\* _read_done_summary: None for a missing or empty marker, else the JSON
read_done_summary(m) == IF Exists(m) THEN m[1] ELSE <<>>

\* if summary and "jsonl" in summary: sensor_files.append(summary["jsonl"])
DiscoverFrom(m, n) ==
    LET F[i \in 0..n] ==
          IF i = 0 THEN <<>>
          ELSE LET summary == read_done_summary(m[candidate_steps[i]]) IN
               IF summary # <<>> /\ summary[1].jsonl # <<>>
               THEN Append(F[i - 1], summary[1].jsonl[1])
               ELSE F[i - 1]
    IN F[n]

Discover(m) == DiscoverFrom(m, Len(candidate_steps))

\* a variant that yields a JSON object without ts_ns as well
Loads_lenient(l) ==
    IF l.kind \in {"rec", "nots"}
    THEN <<[ts_ns |-> IF l.ts = None THEN 0 ELSE l.ts, sensor |-> l.sensor,
            st |-> l.st, n |-> l.n]>>
    ELSE <<>>

\* json.loads(line) and the ts_ns test of _iter_jsonl: <<>> when skipped
Loads(l) ==
    IF l.kind = "rec"
    THEN <<[ts_ns |-> l.ts, sensor |-> l.sensor, st |-> l.st, n |-> l.n]>>
    ELSE <<>>

\* json.dumps(payload)
Dumps(p) == Line("rec", p.ts_ns, p.sensor, p.st, p.n)

\* the next line at or after pos that _iter_jsonl yields (0: StopIteration)
NextValid(lines, pos) ==
    LET ok == {i \in pos..Len(lines) : Loads(lines[i]) # <<>>}
    IN IF ok = {} THEN 0 ELSE CHOOSE i \in ok : \A j \in ok : i <= j

\* the lines _iter_jsonl passes over from pos up to the line it yields, or
\* up to the end of the file
SkippedLines(lines, pos) ==
    LET k == NextValid(lines, pos) IN
    IF k = 0 THEN Len(lines) - pos + 1 ELSE k - pos

\* a variant that ends a source at its first unusable line
initial_entry_stop(files, srcs, idx, pos) ==
    LET lines == files[srcs[idx]][1]
        k == IF pos <= Len(lines) /\ lines[pos].kind = "rec" THEN pos ELSE 0
    IN IF k = 0 THEN <<>>
       ELSE <<[ts |-> lines[k].ts, idx |-> idx,
               payload |-> [ts_ns |-> lines[k].ts, sensor |-> lines[k].sensor,
                            st |-> lines[k].st, n |-> lines[k].n],
               at |-> k]>>

\* initial_entry(idx, iterator): <<>> when the iterator is exhausted
initial_entry(files, srcs, idx, pos) ==
    LET lines == files[srcs[idx]][1]
        k == NextValid(lines, pos)
    IN IF k = 0 THEN <<>>
       ELSE <<[ts |-> Loads(lines[k])[1].ts_ns, idx |-> idx,
               payload |-> Loads(lines[k])[1], at |-> k]>>

\* tuple order of the heap entries: (ts, idx)
KeyLess(a, b) == a.ts < b.ts \/ (a.ts = b.ts /\ a.idx < b.idx)

\* a variant that drains the sources one after the other
HeapMin_ByIdx(h) == CHOOSE e \in h : \A o \in h : e.idx <= o.idx

\* heapq.heappop: the smallest entry
HeapMin(h) == CHOOSE e \in h : \A o \in h : o = e \/ KeyLess(e, o)

\* a variant that marks the step done when it discovers no source
MergeCall_marks_empty(f) ==
    /\ run.pc = "idle"
    /\ UNCHANGED aside
    /\ calls < MaxCalls
    /\ calls' = calls + 1
    /\ UNCHANGED <<jsonl, art, dirs, manifest, kills, partial>>
    /\ IF ~f /\ is_done(marker, MergeStep)
       THEN /\ run' = [Idle EXCEPT !.skipped = MergeStep, !.logged = 1]
            /\ UNCHANGED marker
       ELSE LET cleared == IF f THEN clear_done(marker, MergeStep) ELSE marker
                sensor_files == Discover(cleared)
            IN IF sensor_files = <<>>
               THEN /\ marker' = mark_done_open(cleared, MergeStep)
                    /\ run' = [Idle EXCEPT !.early = [why |-> "no_sources",
                                                      step |-> MergeStep,
                                                      force |-> f],
                                      !.logged = 1]
               ELSE /\ marker' = cleared
                    /\ run' = [Idle EXCEPT !.step = MergeStep, !.force = f,
                                           !.prev = Found(MergeStep, EVENTS_FILE),
                                           !.resumed = MergeStep \in partial,
                                           !.srcs = sensor_files,
                                           !.pc = "m_prepare"]

\* a variant that looks for sources before it clears its marker, and among
\* the markers of all eight steps
MergeCall_sees_events(f) ==
    /\ run.pc = "idle"
    /\ UNCHANGED aside
    /\ calls < MaxCalls
    /\ calls' = calls + 1
    /\ UNCHANGED <<jsonl, art, dirs, manifest, kills, partial>>
    /\ IF ~f /\ is_done(marker, MergeStep)
       THEN /\ run' = [Idle EXCEPT !.skipped = MergeStep, !.logged = 1]
            /\ UNCHANGED marker
       ELSE /\ marker' = IF f THEN clear_done(marker, MergeStep) ELSE marker
            /\ LET F[i \in 0..Len(manifest_steps)] ==
                     IF i = 0 THEN <<>>
                     ELSE LET summary == read_done_summary(marker[manifest_steps[i]])
                          IN IF summary # <<>> /\ summary[1].jsonl # <<>>
                             THEN Append(F[i - 1], summary[1].jsonl[1])
                             ELSE F[i - 1]
                   sensor_files == F[Len(manifest_steps)]
               IN
               IF sensor_files = <<>>
               THEN run' = [Idle EXCEPT !.early = [why |-> "no_sources",
                                                   step |-> MergeStep,
                                                   force |-> f],
                                      !.logged = 1]
               ELSE run' = [Idle EXCEPT !.step = MergeStep, !.force = f,
                                        !.prev = Found(MergeStep, EVENTS_FILE),
                                        !.resumed = MergeStep \in partial,
                                        !.srcs = sensor_files,
                                        !.pc = "m_prepare"]

MergeCall(f) ==
    /\ run.pc = "idle"
    /\ UNCHANGED aside
    /\ calls < MaxCalls
    /\ calls' = calls + 1
    /\ UNCHANGED <<jsonl, art, dirs, manifest, kills, partial>>
    /\ IF ~f /\ is_done(marker, MergeStep)
       THEN /\ run' = [Idle EXCEPT !.skipped = MergeStep, !.logged = 1]
            /\ UNCHANGED marker
       ELSE /\ marker' = IF f THEN clear_done(marker, MergeStep) ELSE marker
            /\ LET sensor_files == Discover(marker') IN
               IF sensor_files = <<>>
               THEN run' = [Idle EXCEPT !.early = [why |-> "no_sources",
                                                   step |-> MergeStep,
                                                   force |-> f],
                                      !.logged = 1]
               ELSE run' = [Idle EXCEPT !.step = MergeStep, !.force = f,
                                        !.prev = Found(MergeStep, EVENTS_FILE),
                                        !.resumed = MergeStep \in partial,
                                        !.srcs = sensor_files,
                                        !.pc = "m_prepare"]

\* ensure_directory(sensors_dir); if force and exists(events): remove
MergePrepare ==
    /\ run.pc = "m_prepare"
    /\ UNCHANGED aside
    /\ dirs' = ensure_directory(dirs, "sensors")
    /\ jsonl' = IF run.force /\ Exists(jsonl[EVENTS_FILE])
                THEN [jsonl EXCEPT ![EVENTS_FILE] = Absent]
                ELSE jsonl
    /\ partial' = IF run.force THEN partial \ {MergeStep} ELSE partial
    /\ run' = [run EXCEPT !.pc = "m_heap"]
    /\ UNCHANGED <<marker, art, manifest, calls, kills>>

\* a variant that buffers the first two usable lines of every source
MergeHeap_prefetch ==
    /\ run.pc = "m_heap"
    /\ UNCHANGED aside
    /\ IF \E i \in 1..Len(run.srcs) : ~Exists(jsonl[run.srcs[i]])
       THEN run' = Idle
       ELSE LET first == [i \in 1..Len(run.srcs) |->
                            initial_entry(jsonl, run.srcs, i, 1)]
                second == [i \in 1..Len(run.srcs) |->
                             IF first[i] = <<>> THEN <<>>
                             ELSE initial_entry(jsonl, run.srcs, i,
                                                first[i][1].at + 1)]
            IN run' = [run EXCEPT
                         !.heap = {first[i][1] :
                                     i \in {k \in 1..Len(run.srcs) : first[k] # <<>>}}
                                  \cup
                                  {second[i][1] :
                                     i \in {k \in 1..Len(run.srcs) : second[k] # <<>>}},
                         !.pc = "m_open"]
    /\ UNCHANGED <<disk, calls, kills, partial>>

\* the iterators and the initial heap; a missing source file raises
MergeHeap ==
    /\ run.pc = "m_heap"
    /\ UNCHANGED aside
    /\ IF \E i \in 1..Len(run.srcs) : ~Exists(jsonl[run.srcs[i]])
       THEN run' = Idle
       ELSE LET first == [i \in 1..Len(run.srcs) |->
                            initial_entry(jsonl, run.srcs, i, 1)]
                skipped == [i \in 1..Len(run.srcs) |->
                              SkippedLines(jsonl[run.srcs[i]][1], 1)]
                total[i \in 0..Len(run.srcs)] ==
                  IF i = 0 THEN 0 ELSE total[i - 1] + skipped[i]
            IN run' = [run EXCEPT
                         !.heap = {first[i][1] :
                                     i \in {k \in 1..Len(run.srcs) : first[k] # <<>>}},
                         !.recovered = @ + total[Len(run.srcs)],
                         !.pc = "m_open"]
    /\ UNCHANGED <<disk, calls, kills, partial>>

\* fs.open(events_path, "wt")
MergeOpen ==
    /\ run.pc = "m_open"
    /\ UNCHANGED aside
    /\ jsonl' = open_wt(jsonl, EVENTS_FILE)
    /\ run' = [run EXCEPT
                 !.sum = Summary("events", <<EVENTS_FILE>>, 0, 0, None, None,
                                 <<>>, run.srcs),
                 !.pc = IF run.heap = {} THEN "mark" ELSE "m_pop"]
    /\ partial' = IF run.heap = {} THEN partial \ {MergeStep}
                   ELSE partial \cup {MergeStep}
    /\ UNCHANGED <<marker, art, dirs, manifest, calls, kills>>

\* one iteration of "while heap"
MergePop ==
    /\ run.pc = "m_pop"
    /\ UNCHANGED aside
    /\ LET e == HeapMin(run.heap)
           next_entry == initial_entry(jsonl, run.srcs, e.idx, e.at + 1)
           rest == run.heap \ {e}
           heap1 == IF next_entry = <<>> THEN rest
                    ELSE rest \cup {next_entry[1]}
       IN /\ jsonl' = [jsonl EXCEPT ![EVENTS_FILE] =
                         File(Append(@[1], Dumps(e.payload)))]
          /\ run' = [run EXCEPT
                       !.sum = [Observe(run.sum, e.ts) EXCEPT !.count = @ + 1],
                       !.heap = heap1,
                       !.recovered = @ + SkippedLines(jsonl[run.srcs[e.idx]][1],
                                                      e.at + 1),
                       !.pc = IF heap1 = {} THEN "mark" ELSE "m_pop"]
    /\ partial' = IF run'.pc = "mark" THEN partial \ {MergeStep} ELSE partial
    /\ UNCHANGED <<marker, art, dirs, manifest, calls, kills>>

\* ------------------------------------------------------ write_manifest
\* the size of a JSONL file: every line plus its newline
RECURSIVE FileSize(_)
FileSize(lines) ==
    IF lines = <<>> THEN 0
    ELSE LineLen(Head(lines)) + 1 + FileSize(Tail(lines))

\* compute_checksums: size and digests of one file; a digest is modelled
\* as a collision-free function of the content, the content itself
compute_checksums(content) == [size |-> FileSize(content), digest |-> content]

\* sorted(fs.list_files(uri)): the files of a directory in path order
RECURSIVE SortedFiles(_)
SortedFiles(S) ==
    IF S = {} THEN <<>>
    ELSE LET f == CHOOSE x \in S : \A y \in S : x.name <= y.name
         IN <<f>> \o SortedFiles(S \ {f})

RECURSIVE SumBytes(_)
SumBytes(fs) ==
    IF fs = <<>> THEN 0 ELSE 2 + Head(fs).data[2] + SumBytes(Tail(fs))

\* sorted(paths), by insertion
RECURSIVE Insert(_, _)
Insert(x, q) ==
    IF q = <<>> THEN <<x>>
    ELSE IF x.name <= Head(q).name THEN <<x>> \o q
    ELSE <<Head(q)>> \o Insert(x, Tail(q))

\* a variant that keeps the order of the enumeration
sorted_as_listed(q) == q

RECURSIVE sorted(_)
sorted(q) == IF q = <<>> THEN <<>> ELSE Insert(Head(q), sorted(Tail(q)))

\* _collect_directory_checksums over one enumeration of fs.list_files: the
\* files are visited in sorted order, "<file_path>:<per_file_hash>" of
\* each is fed to the digest, sizes and files are counted
collect_listed(q) ==
    LET fs == sorted(q) IN
    [count |-> Len(fs), bytes |-> SumBytes(fs),
     checksum |-> [i \in 1..Len(fs) |-> <<fs[i].name, fs[i].data>>]]

\* _collect_directory_checksums: "<file_path>:<per_file_hash>" of every file
\* folded in sorted order
collect_directory_checksums(S) ==
    LET fs == SortedFiles(S) IN
    [count |-> Len(fs), bytes |-> SumBytes(fs),
     checksum |-> [i \in 1..Len(fs) |-> <<fs[i].name, fs[i].data>>]]

\* _read_summary for the eight steps, in order, tagged with _step
ReadSummaries(m) ==
    LET F[i \in 0..Len(manifest_steps)] ==
          IF i = 0 THEN <<>>
          ELSE LET summary == read_done_summary(m[manifest_steps[i]]) IN
               IF summary # <<>>
               THEN Append(F[i - 1], [step |-> manifest_steps[i],
                                      summary |-> summary[1]])
               ELSE F[i - 1]
    IN F[Len(manifest_steps)]

\* a variant that lists a JSONL file the root no longer holds, as empty
add_jsonl_entry_unchecked(files, summary) ==
    IF summary.jsonl = <<>> THEN <<>>
    ELSE LET content == IF Exists(files[summary.jsonl[1]])
                        THEN files[summary.jsonl[1]][1] ELSE <<>>
             info == compute_checksums(content)
         IN <<[logical_path |-> <<summary.jsonl[1], "">>,
               physical_uri |-> summary.jsonl[1],
               stream_type |-> summary.sensor,
               bytes |-> info.size,
               count |-> summary.count,
               checksum |-> <<info.digest>>,
               ts_range_ns |-> <<summary.ts_first, summary.ts_last>>]>>

\* a variant that copies the size from the summary
add_jsonl_entry_summary_bytes(files, summary) ==
    IF summary.jsonl = <<>> \/ ~Exists(files[summary.jsonl[1]]) THEN <<>>
    ELSE LET info == compute_checksums(files[summary.jsonl[1]][1]) IN
         <<[logical_path |-> <<summary.jsonl[1], "">>,
            physical_uri |-> summary.jsonl[1],
            stream_type |-> summary.sensor,
            bytes |-> summary.bytes,
            count |-> summary.count,
            checksum |-> <<info.digest>>,
            ts_range_ns |-> <<summary.ts_first, summary.ts_last>>]>>

\* add_jsonl_entry: no entry when the summary has no jsonl or the file is gone
add_jsonl_entry(files, summary) ==
    IF summary.jsonl = <<>> \/ ~Exists(files[summary.jsonl[1]]) THEN <<>>
    ELSE LET info == compute_checksums(files[summary.jsonl[1]][1]) IN
         <<[logical_path |-> <<summary.jsonl[1], "">>,
            physical_uri |-> summary.jsonl[1],
            stream_type |-> summary.sensor,
            bytes |-> info.size,
            count |-> summary.count,
            checksum |-> <<info.digest>>,
            ts_range_ns |-> <<summary.ts_first, summary.ts_last>>]>>

\* a variant that lists every file of an artifact directory
add_artifact_entry_per_file(d, a, summary) ==
    LET arts == summary.artifacts
        F[i \in 0..Len(arts)] ==
          IF i = 0 THEN <<>>
          ELSE IF arts[i].uri \notin d THEN F[i - 1]
          ELSE LET fs == SortedFiles(a[arts[i].uri]) IN
               F[i - 1] \o
                 [k \in 1..Len(fs) |->
                    [logical_path |-> <<arts[i].uri, "/">>,
                     physical_uri |-> arts[i].uri,
                     stream_type |-> summary.sensor,
                     bytes |-> 2 + fs[k].data[2],
                     count |-> 1,
                     checksum |-> <<<<fs[k].name, fs[k].data>>>>,
                     ts_range_ns |-> <<summary.ts_first, summary.ts_last>>]]
    IN F[Len(arts)]

\* add_artifact_entry: one entry per artifact directory that exists
add_artifact_entry(d, a, summary) ==
    LET arts == summary.artifacts
        F[i \in 0..Len(arts)] ==
          IF i = 0 THEN <<>>
          ELSE IF arts[i].uri \notin d THEN F[i - 1]
          ELSE LET metrics == collect_directory_checksums(a[arts[i].uri]) IN
               Append(F[i - 1],
                 [logical_path |-> <<arts[i].uri, "/">>,
                  physical_uri |-> arts[i].uri,
                  stream_type |-> summary.sensor,
                  bytes |-> metrics.bytes,
                  count |-> metrics.count,
                  checksum |-> metrics.checksum,
                  ts_range_ns |-> <<summary.ts_first, summary.ts_last>>])
    IN F[Len(arts)]

\* the items of the summaries that add_jsonl_entry and add_artifact_entry
\* pass over because fs.exists is false
RECURSIVE Omitted(_, _, _)
Omitted(summaries, files, d) ==
    IF summaries = <<>> THEN 0
    ELSE LET summary == Head(summaries).summary IN
         (IF summary.jsonl # <<>> /\ ~Exists(files[summary.jsonl[1]])
          THEN 1 ELSE 0)
         + Cardinality({i \in 1..Len(summary.artifacts) :
                          summary.artifacts[i].uri \notin d})
         + Omitted(Tail(summaries), files, d)

\* a variant that lists the artifact directories of a summary first
FileEntries_artifacts_first(summaries, files, d, a) ==
    LET F[i \in 0..Len(summaries)] ==
          IF i = 0 THEN <<>>
          ELSE F[i - 1] \o add_artifact_entry(d, a, summaries[i].summary)
                        \o add_jsonl_entry(files, summaries[i].summary)
    IN F[Len(summaries)]

\* for summary in summaries: add_jsonl_entry; add_artifact_entry
FileEntries(summaries, files, d, a) ==
    LET F[i \in 0..Len(summaries)] ==
          IF i = 0 THEN <<>>
          ELSE F[i - 1] \o add_jsonl_entry(files, summaries[i].summary)
                        \o add_artifact_entry(d, a, summaries[i].summary)
    IN F[Len(summaries)]

\* The model's clock: nanoseconds per microsecond and microseconds per day,
\* scaled down from 1000 and 86_400_000_000.
NsPerUs == 2
UsPerDay == 2

\* round(x) of a quotient n / k, ties to even
RoundHalfEven(n, k) ==
    LET q == n \div k
        r == n % k
    IN IF 2 * r < k THEN q
       ELSE IF 2 * r > k THEN q + 1
       ELSE IF q % 2 = 0 THEN q ELSE q + 1

\* dt.strftime("%Y/%m/%d") of the day with this index since the epoch
strftime(day) ==
    CASE day = 0 -> "1970/01/01"
      [] day = 1 -> "1970/01/02"
      [] day = 2 -> "1970/01/03"
      [] OTHER -> "1970/01/04"

\* timeutils.derive_partition_dt: ns / 1e9 as a float, which
\* utcfromtimestamp rounds to a whole number of microseconds (ties to even,
\* carrying into the seconds) before the date is taken; None for None
derive_partition_dt(ns) ==
    IF ns = None THEN NoStr
    ELSE strftime(RoundHalfEven(ns, NsPerUs) \div UsPerDay)

\* the caller's --partition-dt: None or a date
PartitionDts == {NoStr, "2024/01/01"}

MinOf(S) == CHOOSE x \in S : \A y \in S : x <= y

\* "dt": partition_dt or auto_dt or "unknown"
PartitionDt(summaries, partition_dt) ==
    LET ts_candidates == {summaries[i].summary.ts_first :
                            i \in {k \in 1..Len(summaries) :
                                     summaries[k].summary.ts_first # None}}
        auto_dt == derive_partition_dt(IF ts_candidates = {} THEN None
                                       ELSE MinOf(ts_candidates))
    IN IF partition_dt # NoStr THEN partition_dt
       ELSE IF auto_dt # NoStr THEN auto_dt
       ELSE "unknown"

\* a variant that creates the manifest directory before it reads the markers
ManifestCall_dir_first(partition_dt) ==
    /\ run.pc = "idle"
    /\ UNCHANGED aside
    /\ calls < MaxCalls
    /\ calls' = calls + 1
    /\ UNCHANGED <<marker, jsonl, art, manifest, kills, partial>>
    /\ IF is_done(marker, ManifestStep)
       THEN /\ run' = [Idle EXCEPT !.skipped = ManifestStep, !.logged = 1]
            /\ UNCHANGED dirs
       ELSE /\ dirs' = ensure_directory(dirs, "manifest")
            /\ LET summaries == ReadSummaries(marker) IN
               IF summaries = <<>>
               THEN run' = [Idle EXCEPT !.early = [why |-> "no_summaries",
                                                   step |-> ManifestStep,
                                                   force |-> FALSE],
                                     !.logged = 1]
               ELSE run' = [Idle EXCEPT !.step = ManifestStep,
                                        !.resumed = ManifestStep \in partial,
                                        !.summaries = summaries,
                                        !.pdt = partition_dt,
                                        !.pc = "w_dirs"]

ManifestCall(partition_dt) ==
    /\ run.pc = "idle"
    /\ UNCHANGED aside
    /\ calls < MaxCalls
    /\ calls' = calls + 1
    /\ UNCHANGED <<disk, kills, partial>>
    /\ IF is_done(marker, ManifestStep)
       THEN run' = [Idle EXCEPT !.skipped = ManifestStep, !.logged = 1]
       ELSE LET summaries == ReadSummaries(marker) IN
            IF summaries = <<>>
            THEN run' = [Idle EXCEPT !.early = [why |-> "no_summaries",
                                                step |-> ManifestStep,
                                                force |-> FALSE],
                                     !.logged = 1]
            ELSE run' = [Idle EXCEPT !.step = ManifestStep,
                                     !.resumed = ManifestStep \in partial,
                                     !.summaries = summaries,
                                     !.pdt = partition_dt,
                                     !.pc = "w_dirs"]

\* ensure_directory(fs, manifest_dir)
ManifestDirs ==
    /\ run.pc = "w_dirs"
    /\ UNCHANGED aside
    /\ dirs' = ensure_directory(dirs, "manifest")
    /\ run' = [run EXCEPT !.pc = "w_entries"]
    /\ UNCHANGED <<marker, jsonl, art, manifest, calls, kills, partial>>

\* the file entries are computed, then fs.open(manifest_path, "wt")
ManifestOpen ==
    /\ run.pc = "w_entries"
    /\ UNCHANGED aside
    /\ run' = [run EXCEPT !.entries = FileEntries(run.summaries, jsonl, dirs, art),
                          !.recovered = @ + Omitted(run.summaries, jsonl, dirs),
                          !.pc = "w_write"]
    /\ manifest' = File(<<>>)
    /\ partial' = partial \cup {ManifestStep}
    /\ UNCHANGED <<marker, jsonl, art, dirs, calls, kills>>

\* json.dump(manifest, handle) and close
ManifestWrite ==
    /\ run.pc = "w_write"
    /\ UNCHANGED aside
    /\ manifest' = File(<<[files |-> run.entries,
                           dt |-> PartitionDt(run.summaries, run.pdt)]>>)
    /\ run' = [run EXCEPT !.sum = [manifest |-> "manifest.json",
                                   files |-> Len(run.entries)],
                          !.pc = "mark"]
    /\ partial' = partial \ {ManifestStep}
    /\ UNCHANGED <<marker, jsonl, art, dirs, calls, kills>>

\* the process is killed between two steps; the operator's return after the
\* kill counts against the budget of invocations
Kill ==
    /\ run.pc # "idle"
    /\ UNCHANGED aside
    /\ kills < MaxKills
    /\ calls < MaxCalls
    /\ kills' = kills + 1
    /\ calls' = calls + 1
    /\ run' = Idle
    /\ UNCHANGED <<disk, partial>>

Next ==
    \/ \E s \in SensorSteps, f \in BOOLEAN, c \in CaptureIds, cfg \in Configs :
          ExtractCall(s, f, c, cfg)
    \/ ExtractDirs
    \/ ExtractResolve
    \/ ExtractOpen
    \/ ExtractRec
    \/ \E f \in BOOLEAN : MergeCall(f)
    \/ MergePrepare
    \/ MergeHeap
    \/ MergeOpen
    \/ MergePop
    \/ \E d \in PartitionDts : ManifestCall(d)
    \/ ManifestDirs
    \/ ManifestOpen
    \/ ManifestWrite
    \/ MarkOpen
    \/ MarkWrite
    \/ Kill

Spec == Init /\ [][Next]_vars

\* --------------------------------------- the steps under a configured layout
InitLayout ==
    /\ \E payload \in PathPayloads :
         layout = [paths |-> OutputLayout_from_config(PathsConfig_from_dict(payload)),
                   written |-> {}]
    /\ audio_cli = NoAudioCli
    /\ last_call = NoCalls
    /\ listing = NoListing
    /\ qf = DefaultFlagger
    /\ marker = [s \in Steps |-> Absent]
    /\ jsonl = [f \in JsonlFiles |-> Absent]
    /\ art = [d \in ArtDirs |-> {}]
    /\ dirs = {}
    /\ manifest = Absent
    /\ run = Idle
    /\ calls = 0
    /\ kills = 0
    /\ partial = {}

\* step s opens one of its paths for writing
StepWrites(s) ==
    /\ Cardinality(layout.written) < MaxWrites
    /\ \E path \in step_writes(s, layout.paths) :
         layout' = [layout EXCEPT !.written = @ \cup {<<s, path>>}]
    /\ UNCHANGED <<disk, run, calls, kills, partial, qf, audio_cli, last_call, listing>>

NextLayout == \E s \in Steps : StepWrites(s)

SpecLayout == InitLayout /\ [][NextLayout]_vars

\* ------------------------------------------- one extract-audio invocation
InitAudioCli ==
    /\ \E file \in ChunkInputs, option \in ChunkInputs :
         audio_cli = AudioCli(file, option)
    /\ last_call = NoCalls
    /\ listing = NoListing
    /\ layout = DefaultLayout
    /\ qf = DefaultFlagger
    /\ marker = [s \in Steps |-> Absent]
    /\ jsonl = [f \in JsonlFiles |-> Absent]
    /\ art = [d \in ArtDirs |-> {}]
    /\ dirs = {}
    /\ manifest = Absent
    /\ run = Idle
    /\ calls = 0
    /\ kills = 0
    /\ partial = {}

\* resolve_config: ExtractorConfig.from_yaml -> AudioConfig.from_dict
ResolveConfig ==
    /\ audio_cli.pc = "start"
    /\ LET r == AudioConfig_from_dict(audio_cli.file) IN
       audio_cli' = [audio_cli EXCEPT
                       !.pc = IF r.raised THEN "error" ELSE "loaded",
                       !.chunk_samples = r.chunk_samples]
    /\ UNCHANGED <<disk, run, calls, kills, partial, qf, layout, last_call, listing>>

\* the --chunk-samples override
CliOverride ==
    /\ audio_cli.pc = "loaded"
    /\ LET r == cli_override(audio_cli.chunk_samples, audio_cli.option) IN
       audio_cli' = [audio_cli EXCEPT
                       !.pc = IF r.raised THEN "error" ELSE "ready",
                       !.chunk_samples = r.chunk_samples]
    /\ UNCHANGED <<disk, run, calls, kills, partial, qf, layout, last_call, listing>>

\* Filesystem(), OutputLayout.from_config, extract_audio(config=cfg, ...)
CallExtractAudio ==
    /\ audio_cli.pc = "ready"
    /\ audio_cli' = [audio_cli EXCEPT !.pc = "extract_audio"]
    /\ UNCHANGED <<disk, run, calls, kills, partial, qf, layout, last_call, listing>>

NextAudioCli == ResolveConfig \/ CliOverride \/ CallExtractAudio

SpecAudioCli == InitAudioCli /\ [][NextAudioCli]_vars

\* --------------------------------------------- the callers of status.py
InitStatus ==
    /\ last_call = NoCalls
    /\ listing = NoListing
    /\ audio_cli = NoAudioCli
    /\ layout = DefaultLayout
    /\ qf = DefaultFlagger
    /\ marker = [s \in Steps |-> Absent]
    /\ jsonl = [f \in JsonlFiles |-> Absent]
    /\ art = [d \in ArtDirs |-> {}]
    /\ dirs = {}
    /\ manifest = Absent
    /\ run = Idle
    /\ calls = 0
    /\ kills = 0
    /\ partial = {}

MarkDone(s, payload) ==
    /\ calls < MaxCalls
    /\ calls' = calls + 1
    /\ dirs' = ensure_directory(dirs, DONE_DIRNAME)
    /\ marker' = mark_done(marker, s, payload)
    /\ last_call' = [last_call EXCEPT ![s] = [op |-> "mark", payload |-> payload,
                                              found |-> is_done(marker, s)]]
    /\ UNCHANGED <<jsonl, art, manifest, run, kills, partial, qf, layout,
                   audio_cli, listing>>

ClearDone(s) ==
    /\ calls < MaxCalls
    /\ calls' = calls + 1
    /\ marker' = clear_done(marker, s)
    /\ last_call' = [last_call EXCEPT ![s] = [op |-> "clear", payload |-> NoStr,
                                              found |-> is_done(marker, s)]]
    /\ UNCHANGED <<jsonl, art, dirs, manifest, run, kills, partial, qf, layout,
                   audio_cli, listing>>

NextStatus ==
    \/ \E s \in Steps, payload \in StatusPayloads : MarkDone(s, payload)
    \/ \E s \in Steps : ClearDone(s)

SpecStatus == InitStatus /\ [][NextStatus]_vars

\* ------------------------------------- the checksum of one directory
\* the directories: files with different paths, each with one of two
\* contents
ListedNames == 1..(MaxFiles + 1)

ListedDirs ==
    {S \in SUBSET [name : ListedNames, data : {<<"capA", 1>>, <<"capA", 2>>}] :
       \A x, y \in S : x.name = y.name => x = y}

\* the orders in which the files of S can be enumerated
Enumerations(S) ==
    {q \in [1..Cardinality(S) -> S] :
       \A i, j \in 1..Cardinality(S) : q[i] = q[j] => i = j}

InitListing ==
    /\ \E S \in ListedDirs : listing = [NoListing EXCEPT !.dir = S]
    /\ marker = [s \in Steps |-> Absent]
    /\ jsonl = [f \in JsonlFiles |-> Absent]
    /\ art = [d \in ArtDirs |-> {}]
    /\ dirs = {}
    /\ manifest = Absent
    /\ run = Idle
    /\ calls = 0
    /\ kills = 0
    /\ partial = {}
    /\ qf = DefaultFlagger
    /\ layout = DefaultLayout
    /\ audio_cli = NoAudioCli
    /\ last_call = NoCalls

\* fs.list_files(uri): rglob or fs.find yield the files in some order
ListFiles ==
    /\ listing.pc = "start"
    /\ \E q \in Enumerations(listing.dir) :
         listing' = [listing EXCEPT !.order = q, !.pc = "listed"]
    /\ UNCHANGED <<disk, run, calls, kills, partial, qf, layout, audio_cli,
                   last_call>>

\* _collect_directory_checksums(fs, uri)
CollectChecksums ==
    /\ listing.pc = "listed"
    /\ listing' = [listing EXCEPT !.metrics = <<collect_listed(listing.order)>>,
                                  !.pc = "done"]
    /\ UNCHANGED <<disk, run, calls, kills, partial, qf, layout, audio_cli,
                   last_call>>

NextListing == ListFiles \/ CollectChecksums

SpecListing == InitListing /\ [][NextListing]_vars

\* ------------------------------------------- hand-built roots (the tests)
\* test_events.py: sensor JSONL files and their markers written by hand,
\* then merge_events.  A line code is a timestamp, 0 for a line that is not
\* JSON, None for a JSON object without ts_ns.
LineCodes == (1..MaxTs) \cup {0, None}

Shapes(n) == UNION {[1..k -> LineCodes] : k \in 0..n}

MkLines(s, f) ==
    [i \in 1..Len(f) |->
        IF f[i] >= 1 THEN Line("rec", f[i], SensorName[s], "s", i)
        ELSE IF f[i] = 0 THEN Line("bad", None, SensorName[s], "s", i)
        ELSE Line("nots", None, SensorName[s], "s", i)]

ValidLines(lines) ==
    LET F[i \in 0..Len(lines)] ==
          IF i = 0 THEN <<>>
          ELSE IF Loads(lines[i]) # <<>> THEN Append(F[i - 1], lines[i])
          ELSE F[i - 1]
    IN F[Len(lines)]

TsFirst(lines) ==
    LET v == ValidLines(lines) IN
    IF v = <<>> THEN None ELSE MinOf({v[i].ts : i \in 1..Len(v)})

TsLast(lines) ==
    LET v == ValidLines(lines) IN
    IF v = <<>> THEN None ELSE -MinOf({-v[i].ts : i \in 1..Len(v)})

HandSummary(s, lines, arts) ==
    Summary(SensorName[s], <<SENSOR_FILES[s]>>, Len(ValidLines(lines)), 0,
            TsFirst(lines), TsLast(lines), arts, <<>>)

InitMerge ==
    \E f1 \in Shapes(MaxLines), f2 \in Shapes(MaxLines - 1), f3 \in Shapes(1) :
      LET content == [s \in SensorSteps |->
                        CASE s = "extract_rgb" -> MkLines(s, f1)
                          [] s = "extract_imu" -> MkLines(s, f2)
                          [] s = "extract_gps" -> MkLines(s, f3)
                          [] OTHER -> <<>>]
          written == {"extract_rgb", "extract_imu", "extract_gps"}
      IN
      /\ marker = [s \in Steps |->
                     IF s \in written
                     THEN File(<<HandSummary(s, content[s], <<>>)>>)
                     ELSE Absent]
      /\ jsonl = [f \in JsonlFiles |->
                    IF \E s \in written : SENSOR_FILES[s] = f
                    THEN File(content[CHOOSE s \in written : SENSOR_FILES[s] = f])
                    ELSE Absent]
      /\ art = [d \in ArtDirs |-> {}]
      /\ dirs = {"root", "sensors", "_status"}
      /\ manifest = Absent
      /\ run = Idle
      /\ calls = 0
      /\ kills = 0
      /\ partial = {}
      /\ qf = DefaultFlagger
      /\ layout = DefaultLayout
      /\ audio_cli = NoAudioCli
      /\ last_call = NoCalls
      /\ listing = NoListing

NextMerge ==
    \/ \E f \in BOOLEAN : MergeCall(f)
    \/ MergePrepare
    \/ MergeHeap
    \/ MergeOpen
    \/ MergePop
    \/ MarkOpen
    \/ MarkWrite

SpecMerge == InitMerge /\ [][NextMerge]_vars

\* test_manifest.py: summaries, JSONL files and artifact directories written
\* by hand (some of them missing), then write_manifest.
HandFiles(n) == {[name |-> k, data |-> <<"capA", k>>] : k \in 1..n}

InitManifest ==
    \E present \in SUBSET {"extract_rgb", "extract_audio", "extract_imu"},
       jfiles \in SUBSET {"extract_rgb", "extract_audio", "extract_imu"},
       adirs \in SUBSET {"rgb", "audio"},
       nfiles \in [{"rgb", "audio"} -> 0..MaxFiles],
       t \in 1..MaxTs :
      LET lines == [s \in SensorSteps |-> MkLines(s, <<t>>)]
          arts == [s \in SensorSteps |->
                     CASE s = "extract_rgb" ->
                            <<[uri |-> "rgb", count |-> nfiles["rgb"], bytes |-> 0]>>
                       [] s = "extract_audio" ->
                            <<[uri |-> "audio", count |-> nfiles["audio"], bytes |-> 0]>>
                       [] OTHER -> <<>>]
      IN
      /\ marker = [s \in Steps |->
                     IF s \in present
                     THEN File(<<HandSummary(s, lines[s], arts[s])>>)
                     ELSE Absent]
      /\ jsonl = [f \in JsonlFiles |->
                    IF \E s \in jfiles : SENSOR_FILES[s] = f
                    THEN File(lines[CHOOSE s \in jfiles : SENSOR_FILES[s] = f])
                    ELSE Absent]
      /\ art = [d \in ArtDirs |->
                  IF d \in adirs THEN HandFiles(nfiles[d]) ELSE {}]
      /\ dirs = {"root", "sensors", "_status"} \cup adirs
      /\ manifest = Absent
      /\ run = Idle
      /\ calls = 0
      /\ kills = 0
      /\ partial = {}
      /\ qf = DefaultFlagger
      /\ layout = DefaultLayout
      /\ audio_cli = NoAudioCli
      /\ last_call = NoCalls
      /\ listing = NoListing

NextManifest ==
    \/ \E d \in PartitionDts : ManifestCall(d)
    \/ ManifestDirs
    \/ ManifestOpen
    \/ ManifestWrite
    \/ MarkOpen
    \/ MarkWrite

SpecManifest == InitManifest /\ [][NextManifest]_vars

\* ------------------------------------------- a flagger and its callers
\* a flagger built from a loaded configuration, then register and evaluate
\* calls in any order
InitQuality ==
    /\ \E e \in {<<>>} \cup {<<l>> : l \in EnabledLists} :
         qf = QualityFlagger(build_quality_flagger(from_dict(e)))
    /\ layout = DefaultLayout
    /\ audio_cli = NoAudioCli
    /\ last_call = NoCalls
    /\ listing = NoListing
    /\ marker = [s \in Steps |-> Absent]
    /\ jsonl = [f \in JsonlFiles |-> Absent]
    /\ art = [d \in ArtDirs |-> {}]
    /\ dirs = {}
    /\ manifest = Absent
    /\ run = Idle
    /\ calls = 0
    /\ kills = 0
    /\ partial = {}

Register(name, evaluator) ==
    /\ qf' = [register(qf, name, evaluator) EXCEPT !.op = "register"]
    /\ UNCHANGED <<disk, run, calls, kills, partial, layout, audio_cli, last_call, listing>>

Evaluate(payload) ==
    /\ qf' = [qf EXCEPT !.flags = evaluate(qf, payload),
                        !.payload = payload,
                        !.raised = FALSE,
                        !.op = "evaluate"]
    /\ UNCHANGED <<disk, run, calls, kills, partial, layout, audio_cli, last_call, listing>>

\* the quality_flags of one record of extract_audio
AudioRecord(payload, clipping) ==
    /\ qf' = [qf EXCEPT !.flags = audio_flags(qf, payload, clipping),
                        !.payload = payload,
                        !.raised = FALSE,
                        !.op = "audio_record"]
    /\ UNCHANGED <<disk, run, calls, kills, partial, layout, audio_cli, last_call, listing>>

NextQuality ==
    \/ \E name \in RegNames, evaluator \in Predicates : Register(name, evaluator)
    \/ \E payload \in Payloads : Evaluate(payload)
    \/ \E payload \in Payloads, clipping \in BOOLEAN : AudioRecord(payload, clipping)

SpecQuality == InitQuality /\ [][NextQuality]_vars

\* ================================================================ claims
IsFull(m) == Exists(m) /\ m[1] # <<>>

NonDecreasing(lines) ==
    \A i \in 1..(Len(lines) - 1) : lines[i].ts <= lines[i + 1].ts

RecLines(lines) ==
    LET F[i \in 0..Len(lines)] ==
          IF i = 0 THEN <<>>
          ELSE IF lines[i].kind = "rec" THEN Append(F[i - 1], lines[i])
          ELSE F[i - 1]
    IN F[Len(lines)]

Range(q) == {q[i] : i \in 1..Len(q)}

EventsLines == IF Exists(jsonl[EVENTS_FILE]) THEN jsonl[EVENTS_FILE][1] ELSE <<>>

SourceLines(path) == IF Exists(jsonl[path]) THEN RecLines(jsonl[path][1]) ELSE <<>>

DiscoveredSorted ==
    \A p \in Range(Discover(marker)) : NonDecreasing(SourceLines(p))

\* C1: when every discovered source file is non-decreasing in ts_ns, the
\* lines of the merged events file are non-decreasing in ts_ns from top to
\* bottom.
C1_MergedSortedWhenSourcesSorted ==
    DiscoveredSorted => NonDecreasing(EventsLines)

\* a finished merge of sorted sources that interleaves two of them
C1_Witness ==
    /\ IsFull(marker[MergeStep])
    /\ DiscoveredSorted
    /\ Len(EventsLines) >= 3
    /\ EventsLines[1].sensor = "rgb"
    /\ EventsLines[2].sensor = "imu"
    /\ EventsLines[3].sensor = "rgb"
    /\ EventsLines[1].ts < EventsLines[3].ts

\* C2: every merged events file that merge_events produces from the JSONL
\* files written by the extraction steps is non-decreasing in ts_ns, for
\* every combination of completed steps and number of streams per sensor.
C2_PipelineMergedSorted ==
    IsFull(marker[MergeStep]) => NonDecreasing(EventsLines)

RECURSIVE SumValid(_)
SumValid(paths) ==
    IF paths = <<>> THEN 0
    ELSE Len(SourceLines(Head(paths))) + SumValid(Tail(paths))

\* C7: a finished merge holds every valid line of every discovered source
\* exactly once and nothing else: as many lines as the sources have valid
\* lines, and the same lines.
C7_EachValidLineOnce ==
    IsFull(marker[MergeStep]) =>
      LET srcs == Discover(marker) IN
      /\ Len(EventsLines) = SumValid(srcs)
      /\ Range(EventsLines) = UNION {Range(SourceLines(p)) : p \in Range(srcs)}
      /\ Cardinality(Range(EventsLines)) = Len(EventsLines)

\* a finished merge of a source whose first line is unusable and whose
\* second line is valid
C7_Witness ==
    /\ IsFull(marker[MergeStep])
    /\ Len(jsonl["rgb.jsonl"][1]) = 2
    /\ jsonl["rgb.jsonl"][1][1].kind # "rec"
    /\ jsonl["rgb.jsonl"][1][2].kind = "rec"
    /\ Len(EventsLines) >= 2

SrcIndex(l) ==
    CHOOSE i \in 1..Len(candidate_steps) : SensorName[candidate_steps[i]] = l.sensor

\* C8: of two merged records with equal ts_ns from different sources, the
\* one whose step is earlier in the candidate list comes first.
C8_TieBreakBySourceOrder ==
    IsFull(marker[MergeStep]) =>
      \A i, j \in 1..Len(EventsLines) :
        (/\ EventsLines[i].ts = EventsLines[j].ts
         /\ SrcIndex(EventsLines[i]) < SrcIndex(EventsLines[j])) => i < j

\* the file a sensor step or merge_events writes, and a step's artifact
\* directories
StepFile(s) == IF s = MergeStep THEN EVENTS_FILE ELSE SENSOR_FILES[s]

StepArtDirs(s) ==
    CASE s = "extract_rgb" -> {"rgb"}
      [] s = "extract_et" -> {"et_left", "et_right"}
      [] s = "extract_audio" -> {"audio"}
      [] OTHER -> {}

Writers == SensorSteps \cup {MergeStep}

Payload(m) == m[1][1]

\* the output of step s is completely written: no write of it was cut
\* short, and what its marker's summary counts is what is on disk
Complete(s) ==
    /\ s \notin partial
    /\ (s \in Writers /\ IsFull(marker[s])) =>
         /\ Exists(jsonl[StepFile(s)])
         /\ Len(jsonl[StepFile(s)][1]) = Payload(marker[s]).count
    /\ (s = ManifestStep /\ IsFull(marker[s])) =>
         /\ Exists(manifest)
         /\ manifest[1] # <<>>
         /\ Len(manifest[1][1].files) = Payload(marker[s]).files

\* C3: whenever the done-marker of an extraction, merge or manifest step is
\* present, the step's output is completely written and no run of the step
\* is still writing it, whatever the sequence of calls, forced calls and
\* kills.
C3_MarkerImpliesOutputComplete ==
    \A s \in Steps :
      Exists(marker[s]) =>
        /\ Complete(s)
        /\ run.step = s => run.pc \in {"idle", "mark2"}

\* after a kill: one step's output is cut short and has no marker, another
\* step's marker is present over its complete, non-empty output
C3_Witness ==
    /\ kills > 0
    /\ run.pc = "idle"
    /\ \E s \in Writers : s \in partial /\ ~Exists(marker[s])
    /\ \E t \in Writers :
         /\ IsFull(marker[t])
         /\ Len(jsonl[StepFile(t)][1]) > 0

\* C4: a call of an extraction step or of merge_events without force while
\* the step's marker is present returns at once and changes nothing on
\* disk: JSONL files, artifact files, directories, manifest and markers are
\* the same before and after.
C4_SkipChangesNothing ==
    [][ /\ \A s \in SensorSteps, c \in CaptureIds, cfg \in Configs :
             (Exists(marker[s]) /\ ExtractCall(s, FALSE, c, cfg))
               => (run'.pc = "idle" /\ UNCHANGED disk)
        /\ (Exists(marker[MergeStep]) /\ MergeCall(FALSE))
               => (run'.pc = "idle" /\ UNCHANGED disk) ]_vars

\* a skipped call of a step whose marker and non-empty output are present
C4_Witness ==
    /\ run.skipped \in Writers
    /\ IsFull(marker[run.skipped])
    /\ Len(jsonl[StepFile(run.skipped)][1]) > 0

\* C5: while a forced run of an enabled extraction step or of merge_events
\* has not finished writing its output (from its first step up to the
\* write of the new marker), the step's marker is absent: it was removed
\* before the first write or deletion.
C5_ForceClearsMarkerFirst ==
    (run.step \in Writers /\ run.force /\ run.pc \notin {"idle", "mark2"})
      => ~Exists(marker[run.step])

\* a forced re-run in the middle of its record loop, over the output of an
\* earlier run
C5_Witness ==
    /\ run.step \in Writers
    /\ run.force
    /\ run.pc \in {"rec", "m_pop"}
    /\ Len(jsonl[StepFile(run.step)][1]) > 0
    /\ \E d \in StepArtDirs(run.step) :
         \E f \in art[d] : <<d, f.name>> \notin run.names

\* C6: when a forced run of an extraction or merge step has written its
\* last record, the step's JSONL file holds the records of this run only
\* and every file in the step's artifact directories was written by this
\* run.
C6_ForcedRunReplacesOutput ==
    (run.step \in Writers /\ run.force /\ run.pc = "mark") =>
      /\ Len(jsonl[StepFile(run.step)][1]) = run.sum.count
      /\ \A d \in StepArtDirs(run.step) :
           \A f \in art[d] : <<d, f.name>> \in run.names

\* C9: once the write_manifest marker exists, a write_manifest call with
\* any argument returns at once and changes nothing on disk; and once the
\* marker is complete no step of any operation changes the manifest file
\* or that marker.
C9_ManifestWriteOnce ==
    [][ /\ \A d \in PartitionDts :
             (Exists(marker[ManifestStep]) /\ ManifestCall(d))
               => (run'.pc = "idle" /\ UNCHANGED disk)
        /\ IsFull(marker[ManifestStep])
               => /\ manifest' = manifest
                  /\ marker'[ManifestStep] = marker[ManifestStep] ]_vars

\* a second write_manifest call that found the marker of a written manifest
C9_Witness ==
    /\ run.skipped = ManifestStep
    /\ IsFull(marker[ManifestStep])
    /\ Exists(manifest)
    /\ manifest[1] # <<>>

\* the discovered summaries, those whose JSONL file exists, and the
\* artifact directories of discovered summaries that exist
Discovered == {s \in Range(manifest_steps) : IsFull(marker[s])}

WithJsonl ==
    {s \in Discovered :
       /\ Payload(marker[s]).jsonl # <<>>
       /\ Exists(jsonl[Payload(marker[s]).jsonl[1]])}

ExistingArtDirs ==
    {<<s, i>> \in Discovered \X (1..2) :
       /\ i <= Len(Payload(marker[s]).artifacts)
       /\ Payload(marker[s]).artifacts[i].uri \in dirs}

EntriesFor(uri) ==
    {k \in 1..Len(manifest[1][1].files) :
       manifest[1][1].files[k].physical_uri = uri}

\* C10: a written manifest lists exactly one entry for each discovered
\* summary whose JSONL file exists and exactly one for each existing
\* artifact directory of a discovered summary, however many files the
\* directory holds.
C10_ManifestCardinality ==
    (Exists(manifest) /\ manifest[1] # <<>>) =>
      /\ Len(manifest[1][1].files)
           = Cardinality(WithJsonl) + Cardinality(ExistingArtDirs)
      /\ \A s \in WithJsonl :
           Cardinality(EntriesFor(Payload(marker[s]).jsonl[1])) = 1
      /\ \A p \in ExistingArtDirs :
           Cardinality(EntriesFor(Payload(marker[p[1]]).artifacts[p[2]].uri)) = 1

\* the manifest of a root with one summary whose JSONL file exists and one
\* summary with a missing JSONL file and an artifact directory of 2 files
C10_Witness ==
    /\ IsFull(marker[ManifestStep])
    /\ Discovered = {"extract_rgb", "extract_imu"}
    /\ WithJsonl = {"extract_imu"}
    /\ Cardinality(art["rgb"]) = 2
    /\ Len(manifest[1][1].files) = 2
    /\ \E k \in 1..2 : /\ manifest[1][1].files[k].physical_uri = "rgb"
                       /\ manifest[1][1].files[k].count = 2

\* the UTC calendar date of a timestamp
UtcDate(ns) == strftime(ns \div (NsPerUs * UsPerDay))

TsFirsts(summaries) ==
    {summaries[i].summary.ts_first : i \in 1..Len(summaries)} \ {None}

\* C11: the manifest that write_manifest has just written carries as dt
\* the caller's override when one was given, otherwise the UTC date of the
\* smallest ts_first of the discovered summaries, otherwise "unknown".
C11_PartitionDtPrecedence ==
    (run.step = ManifestStep /\ run.pc = "mark") =>
      manifest[1][1].dt =
        IF run.pdt # NoStr THEN run.pdt
        ELSE IF TsFirsts(run.summaries) # {}
        THEN UtcDate(MinOf(TsFirsts(run.summaries)))
        ELSE "unknown"

\* the positions of the enabled list whose flag has a registered predicate
\* that is true of the payload
Triggered(f, payload) ==
    {i \in 1..Len(f.enabled_flags) :
       /\ f.evaluators[f.enabled_flags[i]] # "none"
       /\ Apply(f.evaluators[f.enabled_flags[i]], payload)}

\* C12: what evaluate(payload) returned is the enabled list cut down to the
\* flags with a registered predicate that is true of the payload, in the
\* order of the enabled list; flags without a predicate raise nothing and
\* add nothing.
C12_EvaluateTriggeredInOrder ==
    qf.op = "evaluate" =>
      \E g \in [1..Len(qf.flags) -> 1..Len(qf.enabled_flags)] :
        /\ \A a, b \in 1..Len(qf.flags) : a < b => g[a] < g[b]
        /\ {g[k] : k \in 1..Len(qf.flags)} = Triggered(qf, qf.payload)
        /\ \A k \in 1..Len(qf.flags) : qf.flags[k] = qf.enabled_flags[g[k]]

\* enabled [a, b] with only a registered, as always-true, evaluated to [a]
C12_Witness ==
    /\ qf.op = "evaluate"
    /\ Len(qf.enabled_flags) = 2
    /\ qf.enabled_flags[1] # qf.enabled_flags[2]
    /\ qf.evaluators[qf.enabled_flags[1]] = "always"
    /\ qf.evaluators[qf.enabled_flags[2]] = "none"
    /\ qf.flags = <<qf.enabled_flags[1]>>

\* C13: register(name, predicate) with a name that is not enabled raises,
\* leaves the registry as it was, and every evaluate call returns after it
\* what it returned before it.
C13_FailedRegisterChangesNothing ==
    [][ \A name \in RegNames, evaluator \in Predicates :
          (Register(name, evaluator) /\ ~InList(name, qf.enabled_flags))
            => /\ qf'.raised
               /\ qf'.evaluators = qf.evaluators
               /\ \A payload \in Payloads :
                    evaluate(qf', payload) = evaluate(qf, payload) ]_vars

\* a register call that raised on a flagger with a registered predicate
C13_Witness ==
    /\ qf.op = "register"
    /\ qf.raised
    /\ \E n \in RegNames : qf.evaluators[n] # "none"

\* C14: the list evaluate returned holds no flag name twice.
C14_EvaluateNoDuplicates ==
    \A a, b \in 1..Len(qf.flags) : qf.flags[a] = qf.flags[b] => a = b

\* C15: an extraction step that is enabled and has found its streams is
\* about to open its JSONL file only when the directory of that file
\* exists, whatever ran before it on the root: the step ensures its own
\* directories and so completes on a fresh root.
C15_StepEnsuresItsDirectories ==
    (run.step \in SensorSteps /\ run.pc = "open") => "sensors" \in dirs

\* every stream of every capture delivers its records in device-time order
StreamsSorted ==
    \A c \in CaptureIds, s \in SensorSteps :
      \A i \in 1..Len(Capture(c)[s]) : NonDecreasing(Capture(c)[s][i].recs)

\* C16: with every provider stream in device-time order, each per-sensor
\* JSONL file is non-decreasing in ts_ns from line to line, also for the
\* steps that write several streams into one file.
C16_SensorFilesSorted ==
    StreamsSorted =>
      \A s \in SensorSteps :
        Exists(jsonl[SENSOR_FILES[s]]) =>
          NonDecreasing(jsonl[SENSOR_FILES[s]][1])

\* the records of the streams in the order "for stream: for record"
RECURSIVE Flatten(_, _)
Flatten(streams, i) ==
    IF i > Len(streams) THEN <<>>
    ELSE [k \in 1..Len(streams[i].recs) |-> [si |-> i, ri |-> k]]
           \o Flatten(streams, i + 1)

\* the lines an uninterrupted run of step s over these streams writes
ExpectedLines(s, streams) ==
    LET all == Flatten(streams, 1)
        U[i \in 0..Len(all)] ==
          IF i = 0 THEN <<>>
          ELSE IF HasArtifacts(s) /\ ~streams[all[i].si].recs[all[i].ri].ok
          THEN U[i - 1]
          ELSE Append(U[i - 1], all[i])
        u == U[Len(all)]
    IN [k \in 1..Len(u) |->
          LET st == streams[u[k].si]
              r == st.recs[u[k].ri]
          IN Line("rec", r.ts, SensorName[s], st.eye,
                  IF ~HasArtifacts(s) THEN u[k].ri
                  ELSE IF s = "extract_audio" \/ r.fn = None THEN k - 1
                  ELSE r.fn)]

CalledStep ==
    IF run'.skipped # "none" THEN run'.skipped
    ELSE IF run'.early.why # "none" THEN run'.early.step
    ELSE run'.step

\* a call is made in this step
IsCall == run.pc = "idle" /\ calls' = calls + 1

\* the markers of the sensor steps that hold a summary with a jsonl path
JsonlMarkers(m) ==
    {s \in Range(candidate_steps) :
       IsFull(m[s]) /\ Payload(m[s]).jsonl # <<>>}

\* C18: a merge_events call that is not skipped and finds no sensor marker
\* with a jsonl path returns at once: no file or directory changes, the
\* sensor markers are untouched and no merge marker exists afterwards, so
\* that a later call without force is not skipped.
C18_MergeWithoutSourcesReturns ==
    [][(/\ IsCall
        /\ CalledStep = MergeStep
        /\ run'.skipped = "none"
        /\ JsonlMarkers(marker) = {})
         => /\ run'.pc = "idle"
            /\ UNCHANGED <<jsonl, art, dirs, manifest>>
            /\ \A s \in Steps \ {MergeStep} : marker'[s] = marker[s]
            /\ ~Exists(marker'[MergeStep])
            /\ ~is_done(marker', MergeStep)]_vars

\* merge_events has returned for want of sources while a sensor file of a
\* killed extraction lies on disk without its marker
C18_Witness ==
    /\ run.early.why = "no_sources"
    /\ JsonlMarkers(marker) = {}
    /\ \E s \in SensorSteps : Exists(jsonl[SENSOR_FILES[s]])

\* the markers that hold a readable summary
ReadableMarkers(m) == {s \in Range(manifest_steps) : IsFull(m[s])}

\* C19: a write_manifest call that is not skipped and reads no summary from
\* any marker returns at once: neither the manifest directory nor the
\* manifest file nor any marker is created or changed, and the
\* write_manifest marker is absent afterwards.
C19_ManifestWithoutSummariesReturns ==
    [][(/\ IsCall
        /\ CalledStep = ManifestStep
        /\ run'.skipped = "none"
        /\ ReadableMarkers(marker) = {})
         => /\ run'.pc = "idle"
            /\ UNCHANGED disk
            /\ ~Exists(marker'[ManifestStep])]_vars

\* write_manifest has returned for want of summaries on a root that has no
\* manifest directory, while the marker of a killed step exists and is empty
C19_Witness ==
    /\ run.early.why = "no_summaries"
    /\ "manifest" \notin dirs
    /\ ~Exists(manifest)
    /\ \E s \in SensorSteps : Exists(marker[s]) /\ ~IsFull(marker[s])

\* C20: an extraction call with the sensor's export disabled changes no
\* marker, file or directory, whatever the force flag and whatever an
\* earlier run left; it is not a marker skip, and the step is still not
\* done afterwards if it was not done before.
C20_DisabledExportChangesNothing ==
    [][(IsCall /\ run'.early.why = "disabled")
         => /\ UNCHANGED disk
            /\ run'.pc = "idle"
            /\ run'.skipped = "none"
            /\ is_done(marker', run'.early.step)
                 = is_done(marker, run'.early.step)]_vars

\* a forced call with export disabled has returned while the marker and the
\* output of an earlier run of the step exist
C20_Witness ==
    /\ run.early.why = "disabled"
    /\ run.early.force
    /\ IsFull(marker[run.early.step])
    /\ Exists(jsonl[SENSOR_FILES[run.early.step]])

\* the record the loop of a running extraction step is at
CurRec == run.streams[run.si].recs[run.ri]

\* the streams hold no usable record
NoUsable(s, streams) == ExpectedLines(s, streams) = <<>>

\* C21: an extraction step that has resolved streams without any usable
\* record does not end before it has written its marker; when it ends, its
\* JSONL file exists and is empty and its marker holds a summary with
\* count 0 and ts_first = ts_last = null.
C21_EmptyResultCompletes ==
    [][(/\ run.step \in SensorSteps
        /\ run.pc \in {"open", "rec", "mark", "mark2"}
        /\ NoUsable(run.step, run.streams)
        /\ kills' = kills
        /\ run'.pc = "idle")
         => /\ jsonl'[SENSOR_FILES[run.step]] = File(<<>>)
            /\ IsFull(marker'[run.step])
            /\ Payload(marker'[run.step]).count = 0
            /\ Payload(marker'[run.step]).ts_first = None
            /\ Payload(marker'[run.step]).ts_last = None]_vars

\* C22: an unusable record of an image or audio step changes no file, no
\* directory and nothing of the running summary and the loop goes on; when
\* the loop ends the JSONL file holds the lines of all usable records, and
\* the step then ends only with its marker written.
C22_UnusableRecordSkipped ==
    [][/\ (/\ run.pc = "rec"
           /\ HasArtifacts(run.step)
           /\ ~CurRec.ok
           /\ kills' = kills)
            => /\ UNCHANGED disk
               /\ run'.sum = run.sum
               /\ run'.names = run.names
               /\ run'.pc \in {"rec", "mark"}
       /\ (run.pc = "rec" /\ run'.pc = "mark")
            => /\ jsonl'[SENSOR_FILES[run.step]] =
                    File(ExpectedLines(run.step, run.streams))
               /\ run'.sum.count = Len(ExpectedLines(run.step, run.streams))
       /\ (/\ run.pc \in {"rec", "mark", "mark2"}
           /\ run.step \in SensorSteps
           /\ kills' = kills
           /\ run'.pc = "idle")
            => /\ IsFull(marker'[run.step])
               /\ Payload(marker'[run.step]).count =
                    Len(ExpectedLines(run.step, run.streams))]_vars

\* an image or audio step has finished its loop over a stream that holds an
\* unusable record before a usable one, and has counted the usable one
C22_Witness ==
    /\ run.pc = "mark"
    /\ HasArtifacts(run.step)
    /\ \E i \in 1..Len(run.streams) :
         \E a, b \in 1..Len(run.streams[i].recs) :
            /\ a < b
            /\ ~run.streams[i].recs[a].ok
            /\ run.streams[i].recs[b].ok
    /\ run.sum.count = 1
    /\ Len(jsonl[SENSOR_FILES[run.step]][1]) = 1

\* the sensors whose resolve_*_stream(s) raises when no stream matches
MandatorySteps == {"extract_rgb", "extract_et", "extract_audio", "extract_imu"}

\* the sensors whose step warns and returns when no stream matches
OptionalSteps == {"extract_gps", "extract_wifi", "extract_bt"}

\* C23: when the provider cannot open the capture, or the capture has no
\* stream for a mandatory sensor, the step ends with an exception at that
\* point: its marker is absent and no marker, JSONL file, artifact file or
\* manifest of any step changes.
C23_ProviderFailureAbortsStepOnly ==
    [][(/\ run.pc = "resolve"
        /\ \/ ~CanOpen(run.cap)
           \/ run.step \in MandatorySteps /\ Capture(run.cap)[run.step] = <<>>
        /\ kills' = kills)
         => /\ run'.pc = "idle"
            /\ run'.early.why = "raise"
            /\ UNCHANGED <<marker, jsonl, art, manifest>>
            /\ ~Exists(marker'[run.step])]_vars

\* a step has ended with a provider exception on a root that holds the
\* marker and the JSONL file of another step
C23_Witness ==
    /\ run.early.why = "raise"
    /\ ~Exists(marker[run.early.step])
    /\ \E s \in SensorSteps \ {run.early.step} :
         IsFull(marker[s]) /\ Exists(jsonl[SENSOR_FILES[s]])

\* C24: when the capture opens and has no stream of an optional sensor, the
\* step returns normally at that point; no marker, file or directory is
\* created or changed, the sensor's JSONL file included, and the step's
\* marker is absent.
C24_OptionalSensorAbsentReturns ==
    [][(/\ run.pc = "resolve"
        /\ run.step \in OptionalSteps
        /\ CanOpen(run.cap)
        /\ Capture(run.cap)[run.step] = <<>>
        /\ kills' = kills)
         => /\ run'.pc = "idle"
            /\ run'.early.why = "empty"
            /\ UNCHANGED disk
            /\ ~Exists(marker'[run.step])]_vars

\* an optional step has returned for want of a stream while the JSONL file
\* of an earlier run of the step is on disk with its lines
C24_Witness ==
    /\ run.early.why = "empty"
    /\ run.early.step \in OptionalSteps
    /\ ~Exists(marker[run.early.step])
    /\ Exists(jsonl[SENSOR_FILES[run.early.step]])
    /\ jsonl[SENSOR_FILES[run.early.step]][1] # <<>>

\* C25: whatever the configured layout, a path written by one step is
\* written by no other step.
C25_StepsWriteDisjointPaths ==
    \A w1, w2 \in layout.written : w1[2] = w2[2] => w1[1] = w2[1]

\* the JSONL paths and artifact directories the discovered summaries name
\* that the root no longer holds, and those it holds
MissingItems ==
    {Payload(marker[s]).jsonl[1] : s \in Discovered \ WithJsonl} \cup
    {Payload(marker[s]).artifacts[i].uri :
       <<s, i>> \in {q \in Discovered \X (1..2) :
                       /\ q[2] <= Len(Payload(marker[q[1]]).artifacts)
                       /\ q \notin ExistingArtDirs}}

PresentItems ==
    {Payload(marker[s]).jsonl[1] : s \in WithJsonl} \cup
    {Payload(marker[p[1]]).artifacts[p[2]].uri : p \in ExistingArtDirs}

\* the physical_uri of the entries of a manifest file
ListedUris(mf) == {mf[1][1].files[k].physical_uri : k \in 1..Len(mf[1][1].files)}

\* C26: a write_manifest run over summaries that name a missing JSONL file
\* or artifact directory ends with the manifest written and its marker
\* set; the manifest lists every item that exists and none that is missing.
C26_MissingItemsOmitted ==
    [][(/\ run.step = ManifestStep
        /\ run.pc # "idle"
        /\ MissingItems # {}
        /\ kills' = kills
        /\ run'.pc = "idle")
         => /\ IsFull(marker'[ManifestStep])
            /\ Payload(marker'[ManifestStep]).files = Cardinality(PresentItems)
            /\ Exists(manifest') /\ manifest'[1] # <<>>
            /\ ListedUris(manifest') = PresentItems
            /\ ListedUris(manifest') \cap MissingItems = {}]_vars

\* a finished manifest of a root where one summary's JSONL file is missing
\* while another summary's JSONL file and an artifact directory exist
C26_Witness ==
    /\ IsFull(marker[ManifestStep])
    /\ \E s \in Discovered \ WithJsonl :
         Payload(marker[s]).jsonl[1] \notin ListedUris(manifest)
    /\ \E s \in WithJsonl :
         Payload(marker[s]).jsonl[1] \in ListedUris(manifest)
    /\ ExistingArtDirs # {}
    /\ Cardinality(ListedUris(manifest)) >= 2

\* C27: in a written manifest the entry of a JSONL file carries the size of
\* the file on disk, and the count, ts_first and ts_last of the summary that
\* names the file.
C27_JsonlEntryFields ==
    (Exists(manifest) /\ manifest[1] # <<>>) =>
      \A s \in WithJsonl :
        \A k \in EntriesFor(Payload(marker[s]).jsonl[1]) :
          LET e == manifest[1][1].files[k]
              sum == Payload(marker[s])
          IN /\ e.bytes = FileSize(jsonl[sum.jsonl[1]][1])
             /\ e.count = sum.count
             /\ e.ts_range_ns = <<sum.ts_first, sum.ts_last>>

\* a written manifest with a JSONL entry whose bytes is the file's size and
\* differs from the bytes field of the summary
C27_Witness ==
    /\ Exists(manifest) /\ manifest[1] # <<>>
    /\ \E s \in WithJsonl :
         \E k \in EntriesFor(Payload(marker[s]).jsonl[1]) :
           /\ manifest[1][1].files[k].bytes > 0
           /\ manifest[1][1].files[k].bytes # Payload(marker[s]).bytes
           /\ manifest[1][1].files[k].count = 1

\* C28: extract_audio is entered only with a chunk size of 2048 or 4096,
\* whether the size comes from the configuration file, from the default or
\* from the --chunk-samples option.
C28_UnsupportedChunkRejected ==
    audio_cli.pc = "extract_audio" => audio_cli.chunk_samples \in {2048, 4096}

\* C29: after every mark_done or clear_done call, a step is done exactly
\* when the last call made for it was mark_done, and its marker then holds
\* the payload of that call; a clear_done that finds no marker changes
\* nothing; the marker of a step no call was made for is as before.
C29_StatusTracker ==
    [][/\ \A s \in Steps : is_done(marker', s) <=> last_call'[s].op = "mark"
       /\ \A s \in Steps :
            (last_call'[s].op = "mark" /\ last_call'[s].payload # NoStr)
              => marker'[s] = File(<<last_call'[s].payload>>)
       /\ \A s \in Steps :
            (/\ last_call'[s] # last_call[s]
             /\ last_call'[s].op = "clear"
             /\ ~last_call'[s].found) => marker' = marker
       /\ \A s \in Steps :
            last_call'[s] = last_call[s] => marker'[s] = marker[s]]_vars

\* a step marked twice holds the second payload, while a clear_done for
\* another step found no marker
C29_Witness ==
    \E s, t \in Steps :
      /\ s # t
      /\ last_call[s].op = "mark"
      /\ last_call[s].found
      /\ last_call[s].payload = "p2"
      /\ marker[s] = File(<<"p2">>)
      /\ last_call[t].op = "clear"
      /\ ~last_call[t].found
      /\ ~is_done(marker, t)

\* C30: whenever a running step passes over an unusable record, an
\* unusable input line or a manifest item that is missing, it sends a
\* record to its logger for each of them, and it does not end in that
\* step.
C30_RecoveredErrorsLogged ==
    [][(run.pc # "idle" /\ run'.recovered > run.recovered)
         => /\ run'.logged - run.logged >= run'.recovered - run.recovered
            /\ run'.pc # "idle"]_vars

\* C31: during merge_events the heap holds at most one entry per
\* discovered source, and any two of its entries differ in their
\* (ts, idx) key, so that the key alone orders them.
C31_HeapOnePerSource ==
    /\ Cardinality(run.heap) <= Len(run.srcs)
    /\ \A a, b \in run.heap :
         a # b => /\ a.idx # b.idx
                  /\ <<a.ts, a.idx>> # <<b.ts, b.idx>>
                  /\ KeyLess(a, b) \/ KeyLess(b, a)

\* a heap with an entry of every one of two or more sources, two of them
\* with the same timestamp
C31_Witness ==
    /\ run.pc = "m_pop"
    /\ Len(run.srcs) >= 2
    /\ Cardinality(run.heap) = Len(run.srcs)
    /\ \E a, b \in run.heap : a # b /\ a.ts = b.ts

\* the sources a finished merge has read, by its marker
MergedSources == Payload(marker[MergeStep]).sources

StepTimestamps(s) ==
    {jsonl[StepFile(s)][1][i].ts : i \in 1..Len(jsonl[StepFile(s)][1])}

\* C33: in the summary of the marker of every completed extraction step
\* and of merge_events, count is the number of lines of the step's JSONL
\* file, ts_first the least and ts_last the greatest ts_ns of those lines,
\* and both are None exactly when count is 0.
C33_SummaryMatchesFile ==
    \A s \in SensorSteps \cup {MergeStep} :
      IsFull(marker[s]) =>
        LET sum == Payload(marker[s]) IN
        /\ Exists(jsonl[StepFile(s)])
        /\ sum.count = Len(jsonl[StepFile(s)][1])
        /\ (sum.count = 0) <=> (sum.ts_first = None)
        /\ (sum.count = 0) <=> (sum.ts_last = None)
        /\ sum.count > 0 =>
             /\ sum.ts_first \in StepTimestamps(s)
             /\ sum.ts_last \in StepTimestamps(s)
             /\ \A t \in StepTimestamps(s) : sum.ts_first <= t /\ t <= sum.ts_last

\* a completed extraction whose lines are not in timestamp order, and a
\* completed merge, each with ts_first < ts_last
C33_Witness ==
    /\ IsFull(marker[MergeStep])
    /\ Payload(marker[MergeStep]).ts_first < Payload(marker[MergeStep]).ts_last
    /\ \E s \in SensorSteps :
         /\ IsFull(marker[s])
         /\ Payload(marker[s]).count >= 2
         /\ ~NonDecreasing(jsonl[StepFile(s)][1])

\* the place of a step in the fixed list of write_manifest, and the places
\* of an entry among the items of a summary: 0 for its JSONL file, i for
\* its i-th artifact
StepIndex(s) == CHOOSE i \in 1..Len(manifest_steps) : manifest_steps[i] = s

ItemPlaces(summary, e) ==
    (IF summary.jsonl # <<>> /\ summary.jsonl[1] = e.physical_uri
     THEN {0} ELSE {})
    \cup {i \in 1..Len(summary.artifacts) :
            summary.artifacts[i].uri = e.physical_uri}

\* C34: the summaries write_manifest has read are in the order of its
\* fixed step list; the entries it computes, and writes as manifest.files,
\* follow the order of the summaries, and within one summary the JSONL
\* entry comes before the artifact entries, which are in the order of the
\* summary's artifacts list.
C34_ManifestFilesOrder ==
    (run.step = ManifestStep /\ run.pc \in {"w_write", "mark"}) =>
      LET sm == run.summaries
          es == run.entries
      IN /\ \A k, l \in 1..Len(sm) :
              k < l => StepIndex(sm[k].step) < StepIndex(sm[l].step)
         /\ \A i, j \in 1..Len(es) :
              i < j =>
                \E k, l \in 1..Len(sm) :
                  /\ es[i].stream_type = sm[k].summary.sensor
                  /\ es[j].stream_type = sm[l].summary.sensor
                  /\ \E a \in ItemPlaces(sm[k].summary, es[i]),
                        b \in ItemPlaces(sm[l].summary, es[j]) :
                       k < l \/ (k = l /\ a < b)
         /\ run.pc = "mark" => manifest = File(<<[files |-> es,
                                        dt |-> PartitionDt(sm, run.pdt)]>>)

\* a written manifest with the entries of rgb and, after them, of an
\* eye-tracking summary with its JSONL file and two artifact directories
C34_Witness ==
    /\ run.step = ManifestStep
    /\ run.pc = "mark"
    /\ Len(run.entries) = 5
    /\ run.entries[1].physical_uri = "rgb.jsonl"
    /\ run.entries[3].physical_uri = "et.jsonl"
    /\ run.entries[4].physical_uri = "et_left"
    /\ run.entries[5].physical_uri = "et_right"

\* the sum of the sizes of the files of a directory
RECURSIVE DirBytes(_)
DirBytes(S) ==
    IF S = {} THEN 0
    ELSE LET f == CHOOSE x \in S : TRUE
         IN 2 + f.data[2] + DirBytes(S \ {f})

\* C35: what _collect_directory_checksums returns for a directory is the
\* same for every order in which list_files enumerates its files: the
\* (path, hash) pairs are folded in ascending path order, count is the
\* number of files and bytes the sum of their sizes.
C35_AggregateIgnoresEnumeration ==
    listing.pc = "done" =>
      LET m == listing.metrics[1] IN
      /\ \A q \in Enumerations(listing.dir) : collect_listed(q) = m
      /\ {m.checksum[i] : i \in 1..Len(m.checksum)}
           = {<<f.name, f.data>> : f \in listing.dir}
      /\ \A i, j \in 1..Len(m.checksum) :
           i < j => m.checksum[i][1] < m.checksum[j][1]
      /\ m.count = Cardinality(listing.dir)
      /\ m.bytes = DirBytes(listing.dir)

\* the aggregate of a directory of three files that were enumerated in
\* descending path order
C35_Witness ==
    /\ listing.pc = "done"
    /\ Cardinality(listing.dir) = 3
    /\ \A i, j \in 1..3 : i < j => listing.order[i].name > listing.order[j].name
    /\ listing.metrics[1].count = 3

\* C36: whenever the write_manifest marker exists, every JSONL entry of
\* the manifest carries the size and the checksum of the file that is at
\* its physical_uri now.
C36_ManifestEntriesCurrent ==
    (Exists(marker[ManifestStep]) /\ Exists(manifest) /\ manifest[1] # <<>>) =>
      \A k \in 1..Len(manifest[1][1].files) :
        LET e == manifest[1][1].files[k] IN
        e.physical_uri \in JsonlFiles =>
          /\ Exists(jsonl[e.physical_uri])
          /\ e.bytes = compute_checksums(jsonl[e.physical_uri][1]).size
          /\ e.checksum = <<compute_checksums(jsonl[e.physical_uri][1]).digest>>

\* C37: whenever the merge_events marker is written, the sources the
\* merge has read are the JSONL files of the extraction steps whose
\* markers exist now, and the merged file holds the usable lines of those
\* files as they are now, and no other line.
C37_MergeMatchesMarkers ==
    IsFull(marker[MergeStep]) =>
      LET now == Discover(marker) IN
      /\ MergedSources = now
      /\ \A p \in Range(now) : Range(SourceLines(p)) \subseteq Range(EventsLines)
      /\ \A l \in Range(EventsLines) :
           \E p \in Range(now) : l \in Range(SourceLines(p))
      /\ Len(EventsLines) = SumValid(now)

\* C38: when a forced run of an extraction step ends at the provider,
\* with an exception or for want of a stream of an optional sensor, the
\* step's marker, its JSONL file and the artifact directories are as the
\* call found them.
C38_FailedForcedRunKeepsPrevious ==
    [][(/\ run.pc = "resolve"
        /\ run.force
        /\ run'.pc = "idle"
        /\ kills' = kills)
         => /\ marker'[run.step] = run.prev.marker
            /\ jsonl'[SENSOR_FILES[run.step]] = run.prev.jsonl
            /\ art' = run.prev.art]_vars

\* C39: the quality_flags of a record, as evaluate returns them and as
\* extract_audio completes them with audio_clipping, name flags in the
\* order of the enabled list and name no flag twice.
C39_RecordFlagsOrdered ==
    qf.op \in {"evaluate", "audio_record"} =>
      /\ \E g \in [1..Len(qf.flags) -> 1..Len(qf.enabled_flags)] :
           /\ \A a, b \in 1..Len(qf.flags) : a < b => g[a] < g[b]
           /\ \A k \in 1..Len(qf.flags) : qf.flags[k] = qf.enabled_flags[g[k]]
      /\ \A a, b \in 1..Len(qf.flags) : a # b => qf.flags[a] # qf.flags[b]

\* C40: merge_events never takes the merged events file for a source;
\* and when a forced merge writes its marker over the marker and the
\* merged file of an earlier merge of the same sensor markers and files,
\* the new marker and the new merged file are equal to the earlier ones.
C40_ForcedMergeIdempotent ==
    [][/\ run'.step = MergeStep =>
            \A i \in 1..Len(run'.srcs) : run'.srcs[i] # EVENTS_FILE
       /\ (/\ run.step = MergeStep
           /\ run.force
           /\ run.pc = "mark2"
           /\ IsFull(run.prev.marker)
           /\ run'.pc = "idle")
            => /\ marker'[MergeStep] = run.prev.marker
               /\ jsonl'[EVENTS_FILE] = run.prev.jsonl
               /\ Len(jsonl'[EVENTS_FILE][1]) = run.prev.marker[1][1].count]_vars

\* the third merge call on a root, forced, has rewritten the merged file
\* of three sources and is about to write its marker; the marker it found
\* was complete
C40_Witness ==
    /\ calls = 3
    /\ run.step = MergeStep
    /\ run.force
    /\ run.pc = "mark2"
    /\ IsFull(run.prev.marker)
    /\ Len(run.srcs) = 3
    /\ run.sum.count >= 3
    /\ jsonl[EVENTS_FILE] = run.prev.jsonl

TypeOK ==
    run.pc \in {"idle", "dirs", "resolve", "open", "rec", "mark", "mark2",
                "m_prepare", "m_heap", "m_open", "m_pop",
                "w_dirs", "w_entries", "w_write"}

====
